---- MODULE Spec2Model ----
(***************************************************************************)
(* Model of the SQL statement builders of pkg/database (query_builder.go): *)
(* the select, insert, update and delete builders, their chained calls and *)
(* the terminal Build / BuildResult / Execute calls.                       *)
(*                                                                         *)
(* SQL text is a sequence of tokens.  A token is either literal text or a  *)
(* positional placeholder "$k"; adjacent literals are merged, so two texts *)
(* are equal exactly when the strings they stand for are equal.  Literal   *)
(* text handed in by callers holds no "$" and does not start with a digit. *)
(*                                                                         *)
(* Around the builders, the application: the handler chains of the routes  *)
(* (RoleSpec), the address repository and usecase (AddressSpec), and the   *)
(* user repository and usecase with their calls interleaving statement by  *)
(* statement (AuthSpec).                                                   *)
(***************************************************************************)
EXTENDS Integers, Sequences, FiniteSets, TLC

\* Longest chain of calls made on one insert, update or delete builder
\* (terminal calls included).
MaxCalls == 4
\* Longest chain of calls made on one select builder (terminal calls included).
MaxSelectCalls == 3
\* Largest row count the database reports for one statement.
MaxRows == 1
\* Longest chain of calls made on one bulk insert builder (Execute included).
MaxBulkCalls == 4
\* Longest chain of calls in the lookup chains (Where, Limit, Build) that
\* ChainSpec explores on a select builder.
MaxChainCalls == 4
\* Most optional columns one UpdateAddressRequest fills.
MaxFilled == 1
\* Most usecase calls of userUsecase received in one behaviour.
MaxRequests == 3
\* Most steps of the clock in one behaviour.
MaxTicks == 1

VARIABLES kind, qb, ib, ub, db, bib, calls, out, http, addresses, ret,
          users, procs, clock, hist

vars == <<kind, qb, ib, ub, db, bib, calls, out, http, addresses, ret,
          users, procs, clock, hist>>

\* the builder under study and its call log
builderVars == <<kind, qb, ib, ub, db, bib, calls, out>>

\* the address table and what the last address call returned
addressVars == <<addresses, ret>>

\* the users table, the calls in flight, the time and the record of the
\* calls that have returned
authVars == <<users, procs, clock, hist>>

\* the application around the builders
appVars == <<http, addressVars, authVars>>

----
\* Text: strings with placeholders

Lit(s) == [ph |-> 0, s |-> s]

Ph(k) == [ph |-> k, s |-> ""]

Str(s) == IF s = "" THEN <<>> ELSE <<Lit(s)>>

Cat(a, b) ==
    IF a = <<>> THEN b
    ELSE IF b = <<>> THEN a
    ELSE IF a[Len(a)].ph = 0 /\ b[1].ph = 0
         THEN SubSeq(a, 1, Len(a) - 1) \o <<Lit(a[Len(a)].s \o b[1].s)>> \o Tail(b)
         ELSE a \o b

RECURSIVE Join(_, _)
Join(parts, sep) ==
    IF parts = <<>> THEN <<>>
    ELSE IF Len(parts) = 1 THEN parts[1]
    ELSE Cat(parts[1], Cat(Str(sep), Join(Tail(parts), sep)))

\* the decimal digits of i are a prefix of the decimal digits of k
RECURSIVE HasDecPrefix(_, _)
HasDecPrefix(k, i) ==
    IF k = i THEN TRUE
    ELSE IF k < 10 THEN FALSE
    ELSE HasDecPrefix(k \div 10, i)

\* k with its leading digits i replaced by the digits of n
RECURSIVE SubstDecPrefix(_, _, _)
SubstDecPrefix(k, i, n) ==
    IF k = i THEN n
    ELSE SubstDecPrefix(k \div 10, i, n) * 10 + (k % 10)

Matches(t, i) == { p \in 1..Len(t) : t[p].ph > 0 /\ HasDecPrefix(t[p].ph, i) }

\* strings.Replace(t, "$i", "$n", 1)
ReplaceFirst(t, i, n) ==
    IF Matches(t, i) = {} THEN t
    ELSE LET p == CHOOSE q \in Matches(t, i) : \A r \in Matches(t, i) : q <= r
         IN  [t EXCEPT ![p] = Ph(SubstDecPrefix(t[p].ph, i, n))]

\* the placeholder indices of a text, in order of appearance
RECURSIVE Placeholders(_)
Placeholders(t) ==
    IF t = <<>> THEN <<>>
    ELSE IF t[1].ph > 0 THEN <<t[1].ph>> \o Placeholders(Tail(t))
    ELSE Placeholders(Tail(t))

RECURSIVE SeqMax(_)
SeqMax(s) ==
    IF s = <<>> THEN 0
    ELSE LET m == SeqMax(Tail(s)) IN IF s[1] > m THEN s[1] ELSE m

MaxPlaceholder(t) == SeqMax(Placeholders(t))

----
\* Values and inputs

NULL == "<nil>"

\* time.Now()
Now == "<now>"

Tables == {"users"}

Values == {"v1", "v2"}

Actors == {"admin1"}

\* the argument lists a caller passes for a fragment with n placeholders
ArgLists(n) ==
    IF n = 0 THEN {<<>>}
    ELSE IF n = 1 THEN { <<v>> : v \in Values }
    ELSE IF n = 2 THEN { <<"v1", "v2">> }
    ELSE { <<"v1", "v2", "v3">> }

\* fragments as callers write them, with the number of values bound to them
Fragments ==
    { [cond |-> <<Lit("id = "), Ph(1)>>, n |-> 1],
      [cond |-> <<Lit("user_id = "), Ph(2)>>, n |-> 1],
      [cond |-> <<Lit("deleted_at IS NULL")>>, n |-> 0],
      [cond |-> <<Lit("lo = "), Ph(1), Lit(" AND hi = "), Ph(2)>>, n |-> 2],
      [cond |-> <<Lit("a = "), Ph(1), Lit(" AND b = "), Ph(2), Lit(" AND c = "), Ph(3)>>, n |-> 3] }

SetColumns == {"name", "city"}

NoOut == [op |-> "none", query |-> <<>>, args |-> <<>>, rows |-> 0, err |-> NULL]

\* one chained call: its name and what the caller passed
Call(op, cond, args, n) == [op |-> op, cond |-> cond, args |-> args, n |-> n]

DbError == "db error"

\* no request is in the handler chain
NoRequest ==
    [route |-> 0, header |-> [present |-> FALSE, valid |-> FALSE, role |-> NULL],
     role |-> NULL, index |-> 0, aborted |-> FALSE, status |-> 0, message |-> "",
     ran |-> <<>>]

\* no address call has returned
NoReturn == [op |-> "none", userID |-> NULL, id |-> NULL, err |-> NULL]

\* the application before the first request: empty tables, no call in flight
AppInit ==
    /\ http = NoRequest
    /\ addresses = {}
    /\ ret = NoReturn
    /\ users = <<>>
    /\ procs = <<>>
    /\ clock = 0
    /\ hist = <<>>

\* the IN lists callers pass
InLists == { <<>>, <<"v1">>, <<"v1", "v2">> }

\* the groups callers pass to OrWhere
OrGroups ==
    { <<>>,
      << <<Lit("role = 'admin'")>> >>,
      << <<Lit("role = 'admin'")>>, <<Lit("role = 'moderator'")>> >> }

HavingFragments == { <<Lit("COUNT(*) > "), Ph(1)>> }

Limits == {0, 1}

Offsets == {0, 2}

----
\* UpdateBuilder

NewUpdateBuilder(table) ==
    [table |-> table, sets |-> <<>>, setArgs |-> <<>>,
     where |-> <<>>, whereArgs |-> <<>>, updatedBy |-> NULL]

UpdateBuilder_Set(b, column, value) ==
    [b EXCEPT !.sets = Append(@, Cat(Str(column \o " = "), <<Ph(Len(b.setArgs) + 1)>>)),
              !.setArgs = Append(@, value)]

UpdateBuilder_SetUpdatedBy(b, userID) == [b EXCEPT !.updatedBy = userID]

\* the loop of UpdateBuilder.Where: for i := range args, from index i on
RECURSIVE AdjustPlaceholders(_, _, _, _)
AdjustPlaceholders(condition, i, nargs, paramOffset) ==
    IF i >= nargs THEN condition
    ELSE AdjustPlaceholders(ReplaceFirst(condition, i + 1, paramOffset + i + 1),
                            i + 1, nargs, paramOffset)

UpdateBuilder_Where(b, condition, args) ==
    LET paramOffset == Len(b.setArgs)
    IN  [b EXCEPT !.where = Append(@, AdjustPlaceholders(condition, 0, Len(args), paramOffset)),
                  !.whereArgs = @ \o args]

\* the builder as Build leaves it: the audit SET clauses are appended to it
UpdateBuilder_Audited(b) ==
    IF b.updatedBy # NULL
    THEN LET b1 == [b EXCEPT !.sets = Append(@, <<Lit("updated_by = "), Ph(Len(b.setArgs) + 1)>>),
                             !.setArgs = Append(@, b.updatedBy)]
         IN  [b1 EXCEPT !.sets = Append(@, <<Lit("updated_at = "), Ph(Len(b1.setArgs) + 1)>>),
                        !.setArgs = Append(@, Now)]
    ELSE b

\* mutant: the WHERE keyword is written even when no predicate was given
UpdateBuilder_Build_AlwaysWhere(b) ==
    LET a == UpdateBuilder_Audited(b)
        head == Cat(Str("UPDATE " \o a.table \o " SET "), Join(a.sets, ", "))
        query == Cat(head, Cat(Str(" WHERE "), Join(a.where, " AND ")))
    IN  [query |-> query, args |-> a.setArgs \o a.whereArgs]

UpdateBuilder_Build(b) ==
    LET a == UpdateBuilder_Audited(b)
        head == Cat(Str("UPDATE " \o a.table \o " SET "), Join(a.sets, ", "))
        query == IF Len(a.where) > 0
                 THEN Cat(head, Cat(Str(" WHERE "), Join(a.where, " AND ")))
                 ELSE head
    IN  [query |-> query, args |-> a.setArgs \o a.whereArgs]

----
\* DeleteBuilder

NewDeleteBuilder(table) ==
    [table |-> table, where |-> <<>>, whereArgs |-> <<>>,
     deletedBy |-> NULL, hardDelete |-> FALSE]

DeleteBuilder_Where(b, condition, args) ==
    [b EXCEPT !.where = Append(@, condition), !.whereArgs = @ \o args]

\* mutant: naming an actor switches the builder back to soft delete
DeleteBuilder_SetDeletedBy_ResetsMode(b, userID) ==
    [b EXCEPT !.deletedBy = userID, !.hardDelete = FALSE]

DeleteBuilder_SetDeletedBy(b, userID) == [b EXCEPT !.deletedBy = userID]

DeleteBuilder_HardDelete(b) == [b EXCEPT !.hardDelete = TRUE]

\* mutant: without an actor only deleted_at is set
SoftDeleteSets_DeletedAtOnly(b) ==
    IF b.deletedBy # NULL
    THEN [sets |-> << <<Lit("deleted_at = "), Ph(1)>>, <<Lit("deleted_by = "), Ph(2)>>,
                      <<Lit("updated_at = "), Ph(3)>> >>,
          args |-> <<Now, b.deletedBy, Now>>]
    ELSE [sets |-> << <<Lit("deleted_at = "), Ph(1)>> >>,
          args |-> <<Now>>]

\* the SET clauses and their arguments of the soft delete
SoftDeleteSets(b) ==
    IF b.deletedBy # NULL
    THEN [sets |-> << <<Lit("deleted_at = "), Ph(1)>>, <<Lit("deleted_by = "), Ph(2)>>,
                      <<Lit("updated_at = "), Ph(3)>> >>,
          args |-> <<Now, b.deletedBy, Now>>]
    ELSE [sets |-> << <<Lit("deleted_at = "), Ph(1)>>, <<Lit("updated_at = "), Ph(2)>> >>,
          args |-> <<Now, Now>>]

\* mutant: the WHERE fragments are joined as written, without the shift
AdjustWhere_Unshifted(w, j, nargs, offset) == w

\* the inner loop of DeleteBuilder.Build: for j := 1; j <= len(whereArgs); j++
RECURSIVE AdjustWhere(_, _, _, _)
AdjustWhere(w, j, nargs, offset) ==
    IF j > nargs THEN w
    ELSE AdjustWhere(ReplaceFirst(w, j, offset + j), j + 1, nargs, offset)

\* mutant: an actor keeps the builder in soft mode
HardMode_UnlessActor(b) == b.hardDelete /\ b.deletedBy = NULL

\* the mode test of Build: if db.hardDelete
HardMode(b) == b.hardDelete

DeleteBuilder_Build(b) ==
    IF HardMode(b)
    THEN LET head == Str("DELETE FROM " \o b.table)
         IN  [query |-> IF Len(b.where) > 0
                        THEN Cat(head, Cat(Str(" WHERE "), Join(b.where, " AND ")))
                        ELSE head,
              args |-> b.whereArgs]
    ELSE LET s == SoftDeleteSets(b)
             head == Cat(Str("UPDATE " \o b.table \o " SET "), Join(s.sets, ", "))
             offset == Len(s.args)
             adjustedWhere == [i \in 1..Len(b.where) |->
                                  AdjustWhere(b.where[i], 1, Len(b.whereArgs), offset)]
         IN  IF Len(b.where) > 0
             THEN [query |-> Cat(head, Cat(Str(" WHERE "), Join(adjustedWhere, " AND "))),
                   args |-> s.args \o b.whereArgs]
             ELSE [query |-> head, args |-> s.args]

----
\* QueryBuilder (select)

RECURSIVE JoinStr(_, _)
JoinStr(parts, sep) ==
    IF parts = <<>> THEN ""
    ELSE IF Len(parts) = 1 THEN parts[1]
    ELSE parts[1] \o sep \o JoinStr(Tail(parts), sep)

\* mutant: the column list starts empty instead of holding "*"
NewQueryBuilder_NoColumns(table) ==
    [table |-> table, columns |-> <<>>, where |-> <<>>, orWhere |-> <<>>,
     whereArgs |-> <<>>, orderBy |-> <<>>, groupBy |-> <<>>, having |-> <<>>,
     havingArgs |-> <<>>, limit |-> 0, offset |-> 0, join |-> <<>>, distinct |-> FALSE]

NewQueryBuilder(table) ==
    [table |-> table, columns |-> <<"*">>, where |-> <<>>, orWhere |-> <<>>,
     whereArgs |-> <<>>, orderBy |-> <<>>, groupBy |-> <<>>, having |-> <<>>,
     havingArgs |-> <<>>, limit |-> 0, offset |-> 0, join |-> <<>>, distinct |-> FALSE]

QueryBuilder_Select(b, columns) == [b EXCEPT !.columns = columns]

QueryBuilder_Distinct(b) == [b EXCEPT !.distinct = TRUE]

QueryBuilder_Where(b, condition, args) ==
    [b EXCEPT !.where = Append(@, condition), !.whereArgs = @ \o args]

\* mutant: the list is numbered from $1 whatever was bound before
InPlaceholders_FromOne(a, n) ==
    Join([i \in 1..n |-> <<Ph(i)>>], ", ")

\* "$a+1, $a+2, ..., $a+n" for a = len(whereArgs)
InPlaceholders(a, n) ==
    Join([i \in 1..n |-> <<Ph(a + i)>>], ", ")

\* mutant: no early return on an empty list
QueryBuilder_WhereIn_Unguarded(b, column, values) ==
    [b EXCEPT !.where = Append(@, Cat(Str(column \o " IN ("),
                                      Cat(InPlaceholders(Len(b.whereArgs), Len(values)), Str(")")))),
              !.whereArgs = @ \o values]

QueryBuilder_WhereIn(b, column, values) ==
    IF Len(values) = 0 THEN b
    ELSE [b EXCEPT !.where = Append(@, Cat(Str(column \o " IN ("),
                                           Cat(InPlaceholders(Len(b.whereArgs), Len(values)), Str(")")))),
                   !.whereArgs = @ \o values]

QueryBuilder_WhereNotIn(b, column, values) ==
    IF Len(values) = 0 THEN b
    ELSE [b EXCEPT !.where = Append(@, Cat(Str(column \o " NOT IN ("),
                                           Cat(InPlaceholders(Len(b.whereArgs), Len(values)), Str(")")))),
                   !.whereArgs = @ \o values]

QueryBuilder_WhereLike(b, column, pattern) ==
    [b EXCEPT !.where = Append(@, <<Lit(column \o " LIKE "), Ph(Len(b.whereArgs) + 1)>>),
              !.whereArgs = Append(@, pattern)]

QueryBuilder_WhereBetween(b, column, start, end) ==
    [b EXCEPT !.where = Append(@, <<Lit(column \o " BETWEEN "), Ph(Len(b.whereArgs) + 1),
                                    Lit(" AND "), Ph(Len(b.whereArgs) + 2)>>),
              !.whereArgs = @ \o <<start, end>>]

QueryBuilder_WhereNull(b, column) ==
    [b EXCEPT !.where = Append(@, Str(column \o " IS NULL"))]

QueryBuilder_WhereNotNull(b, column) ==
    [b EXCEPT !.where = Append(@, Str(column \o " IS NOT NULL"))]

QueryBuilder_OrWhere(b, conditions) ==
    IF Len(conditions) > 0 THEN [b EXCEPT !.orWhere = Append(@, conditions)] ELSE b

QueryBuilder_Join(b, joinClause) == [b EXCEPT !.join = Append(@, joinClause)]

QueryBuilder_LeftJoin(b, table, condition) ==
    [b EXCEPT !.join = Append(@, "LEFT JOIN " \o table \o " ON " \o condition)]

QueryBuilder_RightJoin(b, table, condition) ==
    [b EXCEPT !.join = Append(@, "RIGHT JOIN " \o table \o " ON " \o condition)]

QueryBuilder_InnerJoin(b, table, condition) ==
    [b EXCEPT !.join = Append(@, "INNER JOIN " \o table \o " ON " \o condition)]

QueryBuilder_GroupBy(b, columns) == [b EXCEPT !.groupBy = @ \o columns]

QueryBuilder_Having(b, condition, args) ==
    [b EXCEPT !.having = Append(@, condition), !.havingArgs = @ \o args]

QueryBuilder_OrderBy(b, orderBy) == [b EXCEPT !.orderBy = Append(@, orderBy)]

QueryBuilder_Limit(b, limit) == [b EXCEPT !.limit = limit]

QueryBuilder_Offset(b, offset) == [b EXCEPT !.offset = offset]

\* mutant: the fragments of a group are joined by AND
WhereConditions_GroupsJoinedByAnd(b) ==
    (IF Len(b.where) > 0
     THEN << Cat(Str("("), Cat(Join(b.where, " AND "), Str(")"))) >>
     ELSE <<>>)
    \o LET groups == SelectSeq(b.orWhere, LAMBDA g : Len(g) > 0)
       IN  [g \in 1..Len(groups) |-> Cat(Str("("), Cat(Join(groups[g], " AND "), Str(")")))]

\* the parenthesised conditions of the WHERE clause: the AND conditions, then the OR groups
WhereConditions(b) ==
    (IF Len(b.where) > 0
     THEN << Cat(Str("("), Cat(Join(b.where, " AND "), Str(")"))) >>
     ELSE <<>>)
    \o LET groups == SelectSeq(b.orWhere, LAMBDA g : Len(g) > 0)
       IN  [g \in 1..Len(groups) |-> Cat(Str("("), Cat(Join(groups[g], " OR "), Str(")")))]

\* mutant: GROUP BY, HAVING and ORDER BY are written after LIMIT and OFFSET
QueryBuilder_Build_LimitEarly(b) ==
    LET selectClause == IF b.distinct THEN "SELECT DISTINCT" ELSE "SELECT"
        q0 == Str(selectClause \o " " \o JoinStr(b.columns, ", ") \o " FROM " \o b.table)
        q1 == IF Len(b.join) > 0 THEN Cat(q0, Str(" " \o JoinStr(b.join, " "))) ELSE q0
        q2 == IF Len(b.where) > 0 \/ Len(b.orWhere) > 0
              THEN Cat(q1, Cat(Str(" WHERE "), Join(WhereConditions(b), " AND ")))
              ELSE q1
        q3 == IF b.limit > 0 THEN Cat(q2, Str(" LIMIT " \o ToString(b.limit))) ELSE q2
        q4 == IF b.offset > 0 THEN Cat(q3, Str(" OFFSET " \o ToString(b.offset))) ELSE q3
        q5 == IF Len(b.groupBy) > 0
              THEN Cat(q4, Str(" GROUP BY " \o JoinStr(b.groupBy, ", ")))
              ELSE q4
        q6 == IF Len(b.having) > 0
              THEN Cat(q5, Cat(Str(" HAVING "), Join(b.having, " AND ")))
              ELSE q5
        q7 == IF Len(b.orderBy) > 0
              THEN Cat(q6, Str(" ORDER BY " \o JoinStr(b.orderBy, ", ")))
              ELSE q6
    IN  [query |-> q7,
         args |-> IF Len(b.having) > 0 THEN b.whereArgs \o b.havingArgs ELSE b.whereArgs]

QueryBuilder_Build(b) ==
    LET selectClause == IF b.distinct THEN "SELECT DISTINCT" ELSE "SELECT"
        q0 == Str(selectClause \o " " \o JoinStr(b.columns, ", ") \o " FROM " \o b.table)
        q1 == IF Len(b.join) > 0 THEN Cat(q0, Str(" " \o JoinStr(b.join, " "))) ELSE q0
        q2 == IF Len(b.where) > 0 \/ Len(b.orWhere) > 0
              THEN Cat(q1, Cat(Str(" WHERE "), Join(WhereConditions(b), " AND ")))
              ELSE q1
        q3 == IF Len(b.groupBy) > 0
              THEN Cat(q2, Str(" GROUP BY " \o JoinStr(b.groupBy, ", ")))
              ELSE q2
        q4 == IF Len(b.having) > 0
              THEN Cat(q3, Cat(Str(" HAVING "), Join(b.having, " AND ")))
              ELSE q3
        q5 == IF Len(b.orderBy) > 0
              THEN Cat(q4, Str(" ORDER BY " \o JoinStr(b.orderBy, ", ")))
              ELSE q4
        q6 == IF b.limit > 0 THEN Cat(q5, Str(" LIMIT " \o ToString(b.limit))) ELSE q5
        q7 == IF b.offset > 0 THEN Cat(q6, Str(" OFFSET " \o ToString(b.offset))) ELSE q6
    IN  [query |-> q7,
         args |-> IF Len(b.having) > 0 THEN b.whereArgs \o b.havingArgs ELSE b.whereArgs]

----
\* InsertBuilder

NewInsertBuilder(table) ==
    [table |-> table, columns |-> <<>>, values |-> <<>>, createdBy |-> NULL]

InsertBuilder_Set(b, column, value) ==
    [b EXCEPT !.columns = Append(@, column), !.values = Append(@, value)]

InsertBuilder_SetCreatedBy(b, userID) == [b EXCEPT !.createdBy = userID]

\* mutant: the audit columns are put before the caller's columns
InsertBuilder_Audited_Prepends(b) ==
    IF b.createdBy # NULL
    THEN [b EXCEPT !.columns = <<"created_by", "created_at">> \o @,
                   !.values = <<b.createdBy, Now>> \o @]
    ELSE b

\* the builder as Build leaves it: the audit columns are appended to it
InsertBuilder_Audited(b) ==
    IF b.createdBy # NULL
    THEN [b EXCEPT !.columns = @ \o <<"created_by", "created_at">>,
                   !.values = @ \o <<b.createdBy, Now>>]
    ELSE b

InsertBuilder_Build(b) ==
    LET a == InsertBuilder_Audited(b)
        placeholders == [i \in 1..Len(a.columns) |-> <<Ph(i)>>]
    IN  [query |-> Cat(Str("INSERT INTO " \o a.table \o " (" \o JoinStr(a.columns, ", ")
                           \o ") VALUES ("),
                       Cat(Join(placeholders, ", "), Str(") RETURNING id"))),
         args |-> a.values]


----
\* BulkInsertBuilder

NewBulkInsertBuilder(table, columns) ==
    [table |-> table, columns |-> columns, rows |-> <<>>]

\* mutant: the row is kept whatever its length
BulkInsertBuilder_AddRow_Unchecked(b, values) ==
    [b EXCEPT !.rows = Append(@, values)]

BulkInsertBuilder_AddRow(b, values) ==
    IF Len(values) # Len(b.columns) THEN b
    ELSE [b EXCEPT !.rows = Append(@, values)]

\* "(" $p, $p+1, ... ")" for each row, p counting on from one row to the next
RECURSIVE ValuePlaceholders(_, _)
ValuePlaceholders(rows, placeholder) ==
    IF rows = <<>> THEN <<>>
    ELSE LET n == Len(rows[1])
             rowPlaceholders == [i \in 1..n |-> <<Ph(placeholder + i - 1)>>]
         IN  << Cat(Str("("), Cat(Join(rowPlaceholders, ", "), Str(")"))) >>
             \o ValuePlaceholders(Tail(rows), placeholder + n)

RECURSIVE AllValues(_)
AllValues(rows) == IF rows = <<>> THEN <<>> ELSE rows[1] \o AllValues(Tail(rows))

\* the statement Execute sends when there is a row
BulkInsertBuilder_Statement(b) ==
    [query |-> Cat(Str("INSERT INTO " \o b.table \o " (" \o JoinStr(b.columns, ", ")
                       \o ") VALUES "),
                   Join(ValuePlaceholders(b.rows, 1), ", ")),
     args |-> AllValues(b.rows)]

NoRowsError == "no rows to insert"

\* mutant: the statement is sent even when no row was accumulated
BulkInsertBuilder_Execute_AlwaysSends(b, rows, err) ==
    [op |-> "Execute", query |-> BulkInsertBuilder_Statement(b).query,
     args |-> BulkInsertBuilder_Statement(b).args,
     rows |-> IF err = NULL THEN rows ELSE 0, err |-> err]

\* what Execute returns, the database answering (rows, err) if it is asked
BulkInsertBuilder_Execute(b, rows, err) ==
    IF Len(b.rows) = 0
    THEN [op |-> "Execute", query |-> <<>>, args |-> <<>>, rows |-> 0, err |-> NoRowsError]
    ELSE [op |-> "Execute", query |-> BulkInsertBuilder_Statement(b).query,
          args |-> BulkInsertBuilder_Statement(b).args,
          rows |-> IF err = NULL THEN rows ELSE 0, err |-> err]

----
\* State machine: one builder of one kind, mutated by chained calls

Init ==
    /\ kind \in {"select", "insert", "update", "delete"}
    /\ \E t \in Tables :
          /\ qb = NewQueryBuilder(t)
          /\ ib = NewInsertBuilder(t)
          /\ ub = NewUpdateBuilder(t)
          /\ db = NewDeleteBuilder(t)
          /\ bib = NewBulkInsertBuilder(t, <<>>)
    /\ calls = <<>>
    /\ out = NoOut
    /\ AppInit

Built(op, r) == [op |-> op, query |-> r.query, args |-> r.args, rows |-> 0, err |-> NULL]

\* mutant: the error of the database call is dropped
Executed_ErrorDropped(r, rows, err) ==
    [op |-> "Execute", query |-> r.query, args |-> r.args,
     rows |-> IF err = NULL THEN rows ELSE 0, err |-> NULL]

\* what db.Query / db.QueryRow / db.Exec may answer
Executed(r, rows, err) ==
    [op |-> "Execute", query |-> r.query, args |-> r.args,
     rows |-> IF err = NULL THEN rows ELSE 0, err |-> err]

SelectCall(c, b) ==
    /\ kind = "select"
    /\ Len(calls) < MaxSelectCalls
    /\ qb' = b
    /\ calls' = Append(calls, c)
    /\ out' = NoOut
    /\ UNCHANGED appVars
    /\ UNCHANGED <<kind, bib, ib, ub, db>>

SelectSelect ==
    SelectCall(Call("Select", <<>>, <<"id", "email">>, 0), QueryBuilder_Select(qb, <<"id", "email">>))

SelectDistinct == SelectCall(Call("Distinct", <<>>, <<>>, 0), QueryBuilder_Distinct(qb))

SelectWhere ==
    \E f \in Fragments : \E a \in ArgLists(f.n) :
        SelectCall(Call("Where", f.cond, a, 0), QueryBuilder_Where(qb, f.cond, a))

SelectWhereIn ==
    \E v \in InLists :
        SelectCall(Call("WhereIn", Str("role"), v, 0), QueryBuilder_WhereIn(qb, "role", v))

SelectWhereNotIn ==
    \E v \in InLists :
        SelectCall(Call("WhereNotIn", Str("status"), v, 0), QueryBuilder_WhereNotIn(qb, "status", v))

SelectWhereLike ==
    SelectCall(Call("WhereLike", Str("email"), <<"v1">>, 0), QueryBuilder_WhereLike(qb, "email", "v1"))

SelectWhereBetween ==
    SelectCall(Call("WhereBetween", Str("total"), <<"v1", "v2">>, 0),
               QueryBuilder_WhereBetween(qb, "total", "v1", "v2"))

SelectWhereNull ==
    SelectCall(Call("WhereNull", Str("deleted_at"), <<>>, 0), QueryBuilder_WhereNull(qb, "deleted_at"))

SelectWhereNotNull ==
    SelectCall(Call("WhereNotNull", Str("email"), <<>>, 0), QueryBuilder_WhereNotNull(qb, "email"))

SelectOrWhere ==
    \E g \in OrGroups :
        SelectCall(Call("OrWhere", Join(g, " OR "), <<>>, Len(g)), QueryBuilder_OrWhere(qb, g))

SelectJoin ==
    SelectCall(Call("Join", Str("JOIN roles ON roles.id = users.role_id"), <<>>, 0),
               QueryBuilder_Join(qb, "JOIN roles ON roles.id = users.role_id"))

SelectLeftJoin ==
    SelectCall(Call("LeftJoin", Str("addresses"), <<"addresses.user_id = users.id">>, 0),
               QueryBuilder_LeftJoin(qb, "addresses", "addresses.user_id = users.id"))

SelectRightJoin ==
    SelectCall(Call("RightJoin", Str("products"), <<"products.user_id = users.id">>, 0),
               QueryBuilder_RightJoin(qb, "products", "products.user_id = users.id"))

SelectInnerJoin ==
    SelectCall(Call("InnerJoin", Str("orders"), <<"orders.user_id = users.id">>, 0),
               QueryBuilder_InnerJoin(qb, "orders", "orders.user_id = users.id"))

SelectGroupBy ==
    SelectCall(Call("GroupBy", <<>>, <<"user_id">>, 0), QueryBuilder_GroupBy(qb, <<"user_id">>))

SelectHaving ==
    \E h \in HavingFragments : \E a \in ArgLists(1) :
        SelectCall(Call("Having", h, a, 0), QueryBuilder_Having(qb, h, a))

SelectOrderBy ==
    SelectCall(Call("OrderBy", Str("created_at DESC"), <<>>, 0),
               QueryBuilder_OrderBy(qb, "created_at DESC"))

SelectLimit ==
    \E n \in Limits : SelectCall(Call("Limit", <<>>, <<>>, n), QueryBuilder_Limit(qb, n))

SelectOffset ==
    \E n \in Offsets : SelectCall(Call("Offset", <<>>, <<>>, n), QueryBuilder_Offset(qb, n))

SelectTerminal(op, o) ==
    /\ kind = "select"
    /\ Len(calls) < MaxSelectCalls
    /\ calls' = Append(calls, Call(op, <<>>, <<>>, 0))
    /\ out' = o
    /\ UNCHANGED appVars
    /\ UNCHANGED <<kind, bib, qb, ib, ub, db>>

SelectBuild == SelectTerminal("Build", Built("Build", QueryBuilder_Build(qb)))

SelectBuildResult == SelectTerminal("BuildResult", Built("BuildResult", QueryBuilder_Build(qb)))

SelectExecute ==
    \E err \in {NULL, DbError} :
        SelectTerminal("Execute", Executed(QueryBuilder_Build(qb), 0, err))

InsertCall(c, b, o) ==
    /\ kind = "insert"
    /\ Len(calls) < MaxCalls
    /\ ib' = b
    /\ calls' = Append(calls, c)
    /\ out' = o
    /\ UNCHANGED appVars
    /\ UNCHANGED <<kind, bib, qb, ub, db>>

InsertSet ==
    \E col \in SetColumns : \E v \in Values :
        InsertCall(Call("Set", Str(col), <<v>>, 0), InsertBuilder_Set(ib, col, v), NoOut)

InsertSetCreatedBy ==
    \E u \in Actors :
        InsertCall(Call("SetCreatedBy", <<>>, <<u>>, 0), InsertBuilder_SetCreatedBy(ib, u), NoOut)

InsertBuild ==
    InsertCall(Call("Build", <<>>, <<>>, 0), InsertBuilder_Audited(ib),
               Built("Build", InsertBuilder_Build(ib)))

InsertBuildResult ==
    InsertCall(Call("BuildResult", <<>>, <<>>, 0), InsertBuilder_Audited(ib),
               Built("BuildResult", InsertBuilder_Build(ib)))

InsertExecute ==
    \E err \in {NULL, DbError} :
        InsertCall(Call("Execute", <<>>, <<>>, 0), InsertBuilder_Audited(ib),
                   Executed(InsertBuilder_Build(ib), 0, err))

UpdateCall(c, b, o) ==
    /\ kind = "update"
    /\ Len(calls) < MaxCalls
    /\ ub' = b
    /\ calls' = Append(calls, c)
    /\ out' = o
    /\ UNCHANGED appVars
    /\ UNCHANGED <<kind, bib, qb, ib, db>>

UpdateSet ==
    \E col \in SetColumns : \E v \in Values :
        UpdateCall(Call("Set", Str(col), <<v>>, 0), UpdateBuilder_Set(ub, col, v), NoOut)

UpdateSetUpdatedBy ==
    \E u \in Actors :
        UpdateCall(Call("SetUpdatedBy", <<>>, <<u>>, 0), UpdateBuilder_SetUpdatedBy(ub, u), NoOut)

UpdateWhere ==
    \E f \in Fragments : \E a \in ArgLists(f.n) :
        UpdateCall(Call("Where", f.cond, a, 0), UpdateBuilder_Where(ub, f.cond, a), NoOut)

UpdateBuild ==
    UpdateCall(Call("Build", <<>>, <<>>, 0), UpdateBuilder_Audited(ub),
               Built("Build", UpdateBuilder_Build(ub)))

UpdateBuildResult ==
    UpdateCall(Call("BuildResult", <<>>, <<>>, 0), UpdateBuilder_Audited(ub),
               Built("BuildResult", UpdateBuilder_Build(ub)))

UpdateExecute ==
    \E err \in {NULL, DbError} : \E rows \in 0..MaxRows :
        /\ err # NULL => rows = 0
        /\ UpdateCall(Call("Execute", <<>>, <<err>>, rows), UpdateBuilder_Audited(ub),
                      Executed(UpdateBuilder_Build(ub), rows, err))

DeleteCall(c, b, o) ==
    /\ kind = "delete"
    /\ Len(calls) < MaxCalls
    /\ db' = b
    /\ calls' = Append(calls, c)
    /\ out' = o
    /\ UNCHANGED appVars
    /\ UNCHANGED <<kind, bib, qb, ib, ub>>

DeleteWhere ==
    \E f \in Fragments : \E a \in ArgLists(f.n) :
        DeleteCall(Call("Where", f.cond, a, 0), DeleteBuilder_Where(db, f.cond, a), NoOut)

DeleteSetDeletedBy ==
    \E u \in Actors :
        DeleteCall(Call("SetDeletedBy", <<>>, <<u>>, 0), DeleteBuilder_SetDeletedBy(db, u), NoOut)

DeleteHardDelete ==
    DeleteCall(Call("HardDelete", <<>>, <<>>, 0), DeleteBuilder_HardDelete(db), NoOut)

DeleteBuild ==
    DeleteCall(Call("Build", <<>>, <<>>, 0), db, Built("Build", DeleteBuilder_Build(db)))

DeleteBuildResult ==
    DeleteCall(Call("BuildResult", <<>>, <<>>, 0), db, Built("BuildResult", DeleteBuilder_Build(db)))

DeleteExecute ==
    \E err \in {NULL, DbError} : \E rows \in 0..MaxRows :
        /\ err # NULL => rows = 0
        /\ DeleteCall(Call("Execute", <<>>, <<err>>, rows), db,
                      Executed(DeleteBuilder_Build(db), rows, err))

Next ==
    \/ SelectSelect \/ SelectDistinct \/ SelectWhere \/ SelectWhereIn \/ SelectWhereNotIn
    \/ SelectWhereLike \/ SelectWhereBetween \/ SelectWhereNull \/ SelectWhereNotNull
    \/ SelectOrWhere \/ SelectJoin \/ SelectLeftJoin \/ SelectRightJoin \/ SelectInnerJoin
    \/ SelectGroupBy \/ SelectHaving \/ SelectOrderBy \/ SelectLimit \/ SelectOffset
    \/ SelectBuild \/ SelectBuildResult \/ SelectExecute
    \/ InsertSet \/ InsertSetCreatedBy \/ InsertBuild \/ InsertBuildResult \/ InsertExecute
    \/ UpdateSet \/ UpdateSetUpdatedBy \/ UpdateWhere
    \/ UpdateBuild \/ UpdateBuildResult \/ UpdateExecute
    \/ DeleteWhere \/ DeleteSetDeletedBy \/ DeleteHardDelete
    \/ DeleteBuild \/ DeleteBuildResult \/ DeleteExecute

Spec == Init /\ [][Next]_vars

----
\* Lookup chains: a select builder that only receives Where, Limit and Build,
\* as the repositories' find-by-email lookups do; explored one call deeper
\* than Spec explores the whole select builder.

ChainFragments ==
    { [cond |-> <<Lit("email = "), Ph(1)>>, n |-> 1],
      [cond |-> <<Lit("deleted_at IS NULL")>>, n |-> 0] }

ChainInit ==
    /\ kind = "select"
    /\ \E t \in Tables :
          /\ qb = NewQueryBuilder(t)
          /\ ib = NewInsertBuilder(t)
          /\ ub = NewUpdateBuilder(t)
          /\ db = NewDeleteBuilder(t)
          /\ bib = NewBulkInsertBuilder(t, <<>>)
    /\ calls = <<>>
    /\ out = NoOut
    /\ AppInit

ChainWhere ==
    \E f \in ChainFragments : \E a \in ArgLists(f.n) :
        /\ Len(calls) < MaxChainCalls
        /\ qb' = QueryBuilder_Where(qb, f.cond, a)
        /\ calls' = Append(calls, Call("Where", f.cond, a, 0))
        /\ out' = NoOut
        /\ UNCHANGED appVars
        /\ UNCHANGED <<kind, bib, ib, ub, db>>

ChainLimit ==
    \E n \in Limits :
        /\ Len(calls) < MaxChainCalls
        /\ qb' = QueryBuilder_Limit(qb, n)
        /\ calls' = Append(calls, Call("Limit", <<>>, <<>>, n))
        /\ out' = NoOut
        /\ UNCHANGED appVars
        /\ UNCHANGED <<kind, bib, ib, ub, db>>

ChainBuild ==
    /\ Len(calls) < MaxChainCalls
    /\ calls' = Append(calls, Call("Build", <<>>, <<>>, 0))
    /\ out' = Built("Build", QueryBuilder_Build(qb))
    /\ UNCHANGED appVars
    /\ UNCHANGED <<kind, bib, qb, ib, ub, db>>

ChainNext == ChainWhere \/ ChainLimit \/ ChainBuild

ChainSpec == ChainInit /\ [][ChainNext]_vars

----
\* Bulk insert: a BulkInsertBuilder, its AddRow calls and Execute

\* the column lists and the rows callers pass
BulkColumns == { <<"name">>, <<"name", "price">> }

BulkRows == ArgLists(0) \cup ArgLists(1) \cup ArgLists(2) \cup ArgLists(3)

BulkInit ==
    /\ kind = "bulk"
    /\ \E t \in Tables :
          /\ qb = NewQueryBuilder(t)
          /\ ib = NewInsertBuilder(t)
          /\ ub = NewUpdateBuilder(t)
          /\ db = NewDeleteBuilder(t)
          /\ \E columns \in BulkColumns : bib = NewBulkInsertBuilder(t, columns)
    /\ calls = <<>>
    /\ out = NoOut
    /\ AppInit

BulkAddRow ==
    \E values \in BulkRows :
        /\ Len(calls) < MaxBulkCalls
        /\ bib' = BulkInsertBuilder_AddRow(bib, values)
        /\ calls' = Append(calls, Call("AddRow", <<>>, values, 0))
        /\ out' = NoOut
        /\ UNCHANGED appVars
        /\ UNCHANGED <<kind, qb, ib, ub, db>>

BulkExecute ==
    /\ Len(calls) < MaxBulkCalls
    /\ \E err \in {NULL, DbError} : \E rows \in 0..MaxRows :
          /\ err # NULL => rows = 0
          /\ Len(bib.rows) = 0 => (err = NULL /\ rows = 0)
          /\ calls' = Append(calls, IF Len(bib.rows) = 0
                                    THEN Call("Execute", <<>>, <<>>, 0)
                                    ELSE Call("Execute", <<>>, <<err>>, rows))
          /\ out' = BulkInsertBuilder_Execute(bib, rows, err)
    /\ UNCHANGED appVars
    /\ UNCHANGED <<kind, qb, ib, ub, db, bib>>

BulkNext == BulkAddRow \/ BulkExecute

BulkSpec == BulkInit /\ [][BulkNext]_vars

----
\* HTTP routing: a request walks the handler chain of its route (gin runs the
\* handlers of a chain in order; after Abort no later handler of it runs)

StatusOK == 200
StatusBadRequest == 400
StatusUnauthorized == 401
StatusForbidden == 403
StatusNotFound == 404
StatusInternalServerError == 500

Roles == {"SUPERADMIN", "ADMIN", "USER"}

\* the Authorization header of a request: absent, carrying a token that does
\* not verify, or carrying a valid token whose claims name a role
Headers ==
    { [present |-> FALSE, valid |-> FALSE, role |-> NULL],
      [present |-> TRUE, valid |-> FALSE, role |-> NULL] }
    \cup { [present |-> TRUE, valid |-> TRUE, role |-> r] : r \in Roles }

\* the handlers a chain is made of
JWTAuth == [h |-> "JWTAuth", roles |-> {}]
RequireRole(allowedRoles) == [h |-> "RequireRole", roles |-> allowedRoles]
RequireSuperAdmin == RequireRole({"SUPERADMIN"})
Handler(name) == [h |-> name, roles |-> {}]

Route(method, path, chain) == [method |-> method, path |-> path, chain |-> chain]

SetupRoutes ==
    << Route("POST", "/api/auth/register", <<Handler("Register")>>),
       Route("POST", "/api/auth/login", <<Handler("Login")>>),
       Route("POST", "/api/auth/refresh", <<Handler("RefreshToken")>>),
       Route("POST", "/api/auth/logout", <<JWTAuth, Handler("Logout")>>),
       Route("GET", "/api/users/profile", <<JWTAuth, Handler("GetProfile")>>),
       Route("PUT", "/api/users/profile", <<JWTAuth, Handler("UpdateProfile")>>),
       Route("PUT", "/api/users/change-password",
             <<JWTAuth, Handler("ChangePassword")>>),
       Route("GET", "/api/users",
             <<JWTAuth, RequireRole({"ADMIN"}), Handler("GetAllUsers")>>),
       Route("DELETE", "/api/users/:id",
             <<JWTAuth, RequireSuperAdmin, Handler("DeleteUser")>>),
       Route("GET", "/api/addresses", <<JWTAuth, Handler("GetAddressByAuth")>>),
       Route("POST", "/api/addresses", <<JWTAuth, Handler("CreateAddress")>>),
       Route("GET", "/api/addresses/:id", <<JWTAuth, Handler("GetAddressByID")>>),
       Route("PUT", "/api/addresses/:id", <<JWTAuth, Handler("UpdateAddress")>>),
       Route("DELETE", "/api/addresses/:id", <<JWTAuth, Handler("DeleteAddress")>>) >>

\* the chain of the request and the handler it stands before
Chain == SetupRoutes[http.route].chain

InChain == http.route # 0 /\ ~http.aborted /\ http.index <= Len(Chain)

RoleInit ==
    /\ kind = "http"
    /\ \E t \in Tables :
          /\ qb = NewQueryBuilder(t)
          /\ ib = NewInsertBuilder(t)
          /\ ub = NewUpdateBuilder(t)
          /\ db = NewDeleteBuilder(t)
          /\ bib = NewBulkInsertBuilder(t, <<>>)
    /\ calls = <<>>
    /\ out = NoOut
    /\ AppInit

\* a request arrives once the one before it has left the chain
HttpRequest ==
    /\ ~InChain
    /\ \E r \in 1..Len(SetupRoutes) : \E header \in Headers :
          http' = [route |-> r, header |-> header, role |-> NULL, index |-> 1,
                   aborted |-> FALSE, status |-> 0, message |-> "", ran |-> <<>>]
    /\ UNCHANGED <<builderVars, addressVars, authVars>>

Abort(status, message) ==
    [http EXCEPT !.aborted = TRUE, !.status = status, !.message = message]

HttpJWTAuth ==
    /\ InChain
    /\ Chain[http.index].h = "JWTAuth"
    /\ http' = IF ~http.header.present
               THEN Abort(StatusUnauthorized, "Authorization header required")
               ELSE IF ~http.header.valid
               THEN Abort(StatusUnauthorized, "Invalid or expired token")
               ELSE [http EXCEPT !.role = http.header.role, !.index = @ + 1]
    /\ UNCHANGED <<builderVars, addressVars, authVars>>

HttpRequireRole ==
    /\ InChain
    /\ Chain[http.index].h = "RequireRole"
    /\ http' = IF http.role = NULL
               THEN Abort(StatusForbidden, "Role information not found")
               ELSE IF http.role \in Chain[http.index].roles
               THEN [http EXCEPT !.index = @ + 1]
               ELSE Abort(StatusForbidden,
                          "You don't have permission to access this resource")
    /\ UNCHANGED <<builderVars, addressVars, authVars>>

HttpHandler ==
    /\ InChain
    /\ Chain[http.index].h \notin {"JWTAuth", "RequireRole"}
    /\ \E status \in {StatusOK, StatusBadRequest, StatusNotFound,
                      StatusInternalServerError} :
          http' = [http EXCEPT !.ran = Append(@, Chain[http.index].h),
                               !.status = status, !.index = @ + 1]
    /\ UNCHANGED <<builderVars, addressVars, authVars>>

RoleNext == HttpRequest \/ HttpJWTAuth \/ HttpRequireRole \/ HttpHandler

RoleSpec == RoleInit /\ [][RoleNext]_vars

----
\* The database running the UPDATE statement of an UpdateBuilder on the rows
\* of a table.  A fragment "column = $k" of the SET list assigns args[k] to
\* the column, one of the WHERE list compares the column with args[k]; the
\* server refuses a statement whose placeholders are not exactly $1..$n for
\* the n arguments sent with it.

Names(fragment, column) == fragment[1].s = column \o " = "

Selects(b, args, row) ==
    \A i \in 1..Len(b.where) :
        \E c \in DOMAIN row : Names(b.where[i], c) /\ row[c] = args[b.where[i][2].ph]

Assigned(b, args, row) ==
    [c \in DOMAIN row |->
        IF \E i \in 1..Len(b.sets) : Names(b.sets[i], c)
        THEN args[b.sets[CHOOSE i \in 1..Len(b.sets) : Names(b.sets[i], c)][2].ph]
        ELSE row[c]]

\* UpdateBuilder.Execute on a table: the table afterwards, the rows affected
\* and the error of db.Exec
UpdateBuilder_Execute(b, table) ==
    LET a == UpdateBuilder_Audited(b)
        stmt == UpdateBuilder_Build(b)
        used == { Placeholders(stmt.query)[i] : i \in 1..Len(Placeholders(stmt.query)) }
    IN  IF used # 1..Len(stmt.args)
        THEN [table |-> table, rows |-> 0, err |-> DbError]
        ELSE [table |-> { IF Selects(a, stmt.args, row)
                          THEN Assigned(a, stmt.args, row) ELSE row : row \in table },
              rows |-> Cardinality({ row \in table : Selects(a, stmt.args, row) }),
              err |-> NULL]

----
\* Addresses: the addresses table, addressRepository and addressUsecase

ErrNoRows == "sql: no rows in result set"

AddressIds == {"a1", "a2"}

UserIds == {"u1", "u2"}

\* the optional columns of an UpdateAddressRequest, in the order
\* addressRepository.Update looks at them
AddressColumns ==
    <<"label", "recipient_name", "phone", "province", "city", "district",
      "sub_district", "postal_code", "full_address", "is_primary">>

\* a row of addresses as addressRepository.Create inserts it
AddressRow(id, userID) ==
    [id |-> id, user_id |-> userID, label |-> "v0", recipient_name |-> "v0",
     phone |-> "v0", province |-> "v0", city |-> "v0", district |-> "v0",
     sub_district |-> "v0", postal_code |-> "v0", full_address |-> "v0",
     is_primary |-> "false", updated_at |-> Now, deleted_at |-> NULL]

\* the builder of addressRepository.Update: one Set per column the request
\* fills, Set updated_at, then the two Where calls
RECURSIVE SetFilled(_, _, _)
SetFilled(b, fields, i) ==
    IF i > Len(AddressColumns) THEN b
    ELSE SetFilled(IF AddressColumns[i] \in fields
                   THEN UpdateBuilder_Set(b, AddressColumns[i],
                                          IF AddressColumns[i] = "is_primary"
                                          THEN "true" ELSE "v1")
                   ELSE b,
                   fields, i + 1)

addressRepository_Update(userID, address) ==
    LET builder == UpdateBuilder_Set(
                       SetFilled(NewUpdateBuilder("addresses"), address.fields, 1),
                       "updated_at", Now)
    IN  UpdateBuilder_Where(
            UpdateBuilder_Where(builder, <<Lit("id = "), Ph(1)>>, <<address.ID>>),
            <<Lit("user_id = "), Ph(2)>>, <<userID>>)

addressRepository_Delete(id) ==
    UpdateBuilder_Where(
        UpdateBuilder_Set(UpdateBuilder_Set(NewUpdateBuilder("addresses"),
                                            "deleted_at", Now),
                          "updated_at", Now),
        <<Lit("id = "), Ph(1)>>, <<id>>)

\* the rows addressRepository.FindByID selects
addressRepository_FindByID(id) ==
    { row \in addresses : row.id = id /\ row.deleted_at = NULL }

AddressInit ==
    /\ kind = "address"
    /\ \E t \in Tables :
          /\ qb = NewQueryBuilder(t)
          /\ ib = NewInsertBuilder(t)
          /\ ub = NewUpdateBuilder("addresses")
          /\ db = NewDeleteBuilder(t)
          /\ bib = NewBulkInsertBuilder(t, <<>>)
    /\ calls = <<>>
    /\ out = NoOut
    /\ http = NoRequest
    /\ \E owner \in [AddressIds -> UserIds \cup {NULL}] :
          addresses = { AddressRow(id, owner[id]) : id \in { a \in AddressIds : owner[a] # NULL } }
    /\ ret = NoReturn
    /\ users = <<>>
    /\ procs = <<>>
    /\ clock = 0
    /\ hist = <<>>

\* addressUsecase.UpdateAddress
UpdateAddress ==
    \E userID \in UserIds : \E id \in AddressIds :
    \E fields \in { f \in SUBSET { AddressColumns[i] : i \in 1..Len(AddressColumns) } :
                        Cardinality(f) <= MaxFilled } :
        LET builder == addressRepository_Update(userID, [ID |-> id, fields |-> fields])
            r == UpdateBuilder_Execute(builder, addresses)
        IN  /\ ub' = UpdateBuilder_Audited(builder)
            /\ out' = Executed(UpdateBuilder_Build(builder), r.rows, r.err)
            /\ addresses' = r.table
            /\ ret' = [op |-> "UpdateAddress", userID |-> userID, id |-> id,
                       err |-> IF r.err # NULL THEN r.err
                               ELSE IF { row \in r.table : row.id = id /\ row.deleted_at = NULL } = {}
                               THEN ErrNoRows ELSE NULL]
            /\ UNCHANGED <<kind, qb, ib, db, bib, calls, http, authVars>>

\* addressUsecase.DeleteAddress
DeleteAddress ==
    \E userID \in UserIds : \E addressID \in AddressIds :
        LET found == addressRepository_FindByID(addressID)
            builder == addressRepository_Delete(addressID)
            r == UpdateBuilder_Execute(builder, addresses)
        IN  IF found = {}
            THEN /\ ret' = [op |-> "DeleteAddress", userID |-> userID,
                            id |-> addressID, err |-> ErrNoRows]
                 /\ UNCHANGED <<builderVars, addresses, http, authVars>>
            ELSE IF \E address \in found : address.user_id # userID
            THEN /\ ret' = [op |-> "DeleteAddress", userID |-> userID,
                            id |-> addressID, err |-> NULL]
                 /\ UNCHANGED <<builderVars, addresses, http, authVars>>
            ELSE /\ ub' = UpdateBuilder_Audited(builder)
                 /\ out' = Executed(UpdateBuilder_Build(builder), r.rows, r.err)
                 /\ addresses' = r.table
                 /\ ret' = [op |-> "DeleteAddress", userID |-> userID,
                            id |-> addressID, err |-> r.err]
                 /\ UNCHANGED <<kind, qb, ib, db, bib, calls, http, authVars>>

AddressNext == UpdateAddress \/ DeleteAddress

AddressSpec == AddressInit /\ [][AddressNext]_vars

----
\* Users: the users table, userRepository and userUsecase.  Each statement a
\* repository method sends is one step, and the calls of the usecases
\* interleave between their statements; a call returns with its last
\* statement.  Times are seconds; the clock starts after NullTime.

\* SQL NULL in a timestamp column: no time is after it, none before
NullTime == 0

\* 7 * 24 * time.Hour, in seconds
RefreshTokenLife == 604800

Emails == {"e1"}

\* the requests the server works on at a time, each in its own goroutine
Procs == {1, 2}

Passwords == {"p1", "p2"}

HashPassword(password) == "bcrypt(" \o password \o ")"

\* the signed claims (user id, issued-at second) of a refresh token
GenerateRefreshToken(userID, now) == "rt." \o userID \o "." \o ToString(now)

\* mutant: no unique index on the email column
userRepository_Create_NoUniqueIndex(table, user, now) ==
    LET id == "u" \o ToString(Cardinality(table) + 1)
    IN  [table |-> table \cup
                   { [id |-> id, email |-> user.email, password |-> user.password,
                      name |-> user.name, refresh_token |-> NULL,
                      token_expiry |-> NullTime, updated_at |-> now,
                      deleted_at |-> NullTime] },
         id |-> id, err |-> NULL]

\* INSERT INTO users: the email index is unique over all rows, and the
\* database hands out the id
userRepository_Create(table, user, now) ==
    IF \E row \in table : row.email = user.email
    THEN [table |-> table, id |-> NULL, err |-> DbError]
    ELSE LET id == "u" \o ToString(Cardinality(table) + 1)
         IN  [table |-> table \cup
                        { [id |-> id, email |-> user.email, password |-> user.password,
                           name |-> user.name, refresh_token |-> NULL,
                           token_expiry |-> NullTime, updated_at |-> now,
                           deleted_at |-> NullTime] },
              id |-> id, err |-> NULL]

\* mutant: the lookup does not filter on deleted_at
userRepository_FindByID_AnyRow(table, id) ==
    { row \in table : row.id = id }

userRepository_FindByID(table, id) ==
    { row \in table : row.id = id /\ row.deleted_at = NullTime }

userRepository_FindByEmail(table, email) ==
    { row \in table : row.email = email /\ row.deleted_at = NullTime }

\* mutant: the lookup does not compare the token
userRepository_FindByRefreshToken_AnyToken(table, refreshToken, now) ==
    { row \in table : /\ row.refresh_token # NULL
                      /\ row.deleted_at = NullTime
                      /\ row.token_expiry > now }

userRepository_FindByRefreshToken(table, refreshToken, now) ==
    { row \in table : /\ row.refresh_token # NULL
                      /\ row.refresh_token = refreshToken
                      /\ row.deleted_at = NullTime
                      /\ row.token_expiry > now }

userRepository_FindAll(table) == { row \in table : row.deleted_at = NullTime }

userRepository_Update(user, now) ==
    UpdateBuilder_Where(
        UpdateBuilder_Set(
            UpdateBuilder_Set(UpdateBuilder_Set(NewUpdateBuilder("users"), "name", user.name),
                              "password", user.password),
            "updated_at", now),
        <<Lit("id = "), Ph(1)>>, <<user.id>>)

userRepository_Delete(id, now) ==
    UpdateBuilder_Where(
        UpdateBuilder_Set(UpdateBuilder_Set(NewUpdateBuilder("users"), "deleted_at", now),
                          "updated_at", now),
        <<Lit("id = "), Ph(1)>>, <<id>>)

userRepository_SaveRefreshToken(userID, refreshToken, expiresAt, now) ==
    UpdateBuilder_Where(
        UpdateBuilder_Set(
            UpdateBuilder_Set(UpdateBuilder_Set(NewUpdateBuilder("users"),
                                                "refresh_token", refreshToken),
                              "token_expiry", expiresAt),
            "updated_at", now),
        <<Lit("id = "), Ph(1)>>, <<userID>>)

userRepository_ClearRefreshToken(userID, now) ==
    UpdateBuilder_Where(
        UpdateBuilder_Set(
            UpdateBuilder_Set(UpdateBuilder_Set(NewUpdateBuilder("users"),
                                                "refresh_token", NULL),
                              "token_expiry", NullTime),
            "updated_at", now),
        <<Lit("id = "), Ph(1)>>, <<userID>>)

\* a call of a usecase: its arguments, where it stands (find, create, save,
\* write, done), the user it read, and what it returned
NoProc ==
    [op |-> "none", pc |-> "done", email |-> NULL, password |-> NULL, id |-> NULL,
     token |-> NULL, user |-> <<>>, err |-> NULL, new |-> NULL, list |-> {}]

Request(op, email, password, id, token) ==
    [NoProc EXCEPT !.op = op, !.pc = "find", !.email = email,
                   !.password = password, !.id = id, !.token = token]

\* the calls clients make
Requests ==
    { Request("Register", e, "p1", NULL, NULL) : e \in Emails }
    \cup { Request("Login", x[1], x[2], NULL, NULL) : x \in Emails \X Passwords }
    \cup { Request(x[1], NULL, NULL, x[2], NULL) :
              x \in {"GetProfile", "UpdateProfile", "DeleteUser", "Logout"} \X {"u1"} }
    \cup { Request("ChangePassword", NULL, "p1", "u1", NULL) }
    \cup { Request("RefreshToken", NULL, NULL, NULL, t) :
              t \in { x.token : x \in hist.issued } \cup {"bogus"} }
    \cup { Request("GetAllUsers", NULL, NULL, NULL, NULL) }

\* the users table after one Register call at the first second
Registered ==
    LET c == userRepository_Create({}, [email |-> "e1", password |-> HashPassword("p1"),
                                        name |-> "n1"], 1)
    IN  UpdateBuilder_Execute(
            userRepository_SaveRefreshToken(c.id, GenerateRefreshToken(c.id, 1),
                                            1 + RefreshTokenLife, 1),
            c.table).table

NoHistory ==
    [n |-> 0, ticks |-> 0, issued |-> {}, revoked |-> {}, rotated |-> {},
     deleted |-> {}, registered |-> <<>>]

AuthInit ==
    /\ kind = "auth"
    /\ \E t \in Tables :
          /\ qb = NewQueryBuilder(t)
          /\ ib = NewInsertBuilder(t)
          /\ ub = NewUpdateBuilder(t)
          /\ db = NewDeleteBuilder(t)
          /\ bib = NewBulkInsertBuilder(t, <<>>)
    /\ calls = <<>>
    /\ out = NoOut
    /\ http = NoRequest
    /\ addresses = {}
    /\ ret = NoReturn
    /\ procs = [p \in Procs |-> NoProc]
    /\ clock = 1
    /\ \/ users = {} /\ hist = NoHistory
       \/ /\ users = Registered
          /\ hist = [NoHistory EXCEPT
                        !.issued = { [user |-> row.id, token |-> row.refresh_token] : row \in Registered },
                        !.registered = <<"e1">>]

\* a call arrives and takes the first free place
Receive ==
    /\ hist.n < MaxRequests
    /\ \E p \in Procs : \E call \in Requests :
          /\ procs[p].pc = "done"
          /\ \A q \in Procs : q < p => procs[q].pc # "done"
          /\ procs' = [procs EXCEPT ![p] = call]
    /\ hist' = [hist EXCEPT !.n = @ + 1]
    /\ UNCHANGED <<builderVars, http, addressVars, users, clock>>

Tick ==
    /\ hist.ticks < MaxTicks
    /\ \E d \in {1, RefreshTokenLife} : clock' = clock + d
    /\ hist' = [hist EXCEPT !.ticks = @ + 1]
    /\ UNCHANGED <<builderVars, http, addressVars, users, procs>>

Return(p, err) == [procs EXCEPT ![p].pc = "done", ![p].err = err, ![p].user = <<>>]

Read(p, user, pc) == [procs EXCEPT ![p].pc = pc, ![p].user = <<user>>]

\* the end of Register, Login and RefreshToken: a fresh refresh token is
\* generated, saved for the user and returned
Issue(p, userID) ==
    LET token == GenerateRefreshToken(userID, clock)
        r == UpdateBuilder_Execute(
                 userRepository_SaveRefreshToken(userID, token, clock + RefreshTokenLife, clock),
                 users)
    IN  /\ users' = r.table
        /\ procs' = IF r.err # NULL THEN Return(p, r.err)
                    ELSE [procs EXCEPT ![p].pc = "done", ![p].err = NULL, ![p].user = <<>>,
                                       ![p].id = userID, ![p].new = token]

\* the record of the calls that returned, after call p returned a token
Issued(p, h) ==
    IF procs'[p].err # NULL THEN h
    ELSE [h EXCEPT !.issued = @ \cup {[user |-> procs'[p].id, token |-> procs'[p].new]}]

Register(p) ==
    /\ procs[p].op = "Register" /\ procs[p].pc # "done"
    /\ LET c == procs[p]
       IN  CASE c.pc = "find" ->
                  /\ procs' = IF userRepository_FindByEmail(users, c.email) # {}
                              THEN Return(p, "email already registered")
                              ELSE [procs EXCEPT ![p].pc = "create"]
                  /\ UNCHANGED <<users, hist>>
             [] c.pc = "create" ->
                  LET r == userRepository_Create(
                               users, [email |-> c.email, password |-> HashPassword(c.password),
                                       name |-> "n1"], clock)
                  IN  /\ users' = r.table
                      /\ procs' = IF r.err # NULL THEN Return(p, r.err)
                                  ELSE [procs EXCEPT ![p].pc = "save", ![p].id = r.id]
                      /\ UNCHANGED hist
             [] c.pc = "save" ->
                  /\ Issue(p, c.id)
                  /\ hist' = IF procs'[p].err # NULL THEN hist
                             ELSE [Issued(p, hist) EXCEPT
                                      !.registered = Append(@, c.email),
                                      !.revoked = { x \in @ : x.user # c.id }]
    /\ UNCHANGED <<builderVars, http, addressVars, clock>>

Login(p) ==
    /\ procs[p].op = "Login" /\ procs[p].pc # "done"
    /\ LET c == procs[p]
           found == userRepository_FindByEmail(users, c.email)
       IN  CASE c.pc = "find" ->
                  /\ procs' = IF found = {} THEN Return(p, "invalid email or password")
                              ELSE LET user == CHOOSE row \in found : TRUE
                                   IN  IF user.password # HashPassword(c.password)
                                       THEN Return(p, "invalid email or password")
                                       ELSE Read(p, user, "save")
                  /\ UNCHANGED <<users, hist>>
             [] c.pc = "save" ->
                  /\ Issue(p, c.user[1].id)
                  /\ hist' = IF procs'[p].err # NULL THEN hist
                             ELSE [Issued(p, hist) EXCEPT
                                      !.revoked = { x \in @ : x.user # c.user[1].id }]
    /\ UNCHANGED <<builderVars, http, addressVars, clock>>

GetProfile(p) ==
    /\ procs[p].op = "GetProfile" /\ procs[p].pc # "done"
    /\ procs' = IF userRepository_FindByID(users, procs[p].id) = {}
                THEN Return(p, "user not found") ELSE Return(p, NULL)
    /\ UNCHANGED <<builderVars, http, addressVars, users, clock, hist>>

GetAllUsers(p) ==
    /\ procs[p].op = "GetAllUsers" /\ procs[p].pc # "done"
    /\ procs' = [procs EXCEPT ![p].pc = "done", ![p].err = NULL,
                              ![p].list = { row.id : row \in userRepository_FindAll(users) }]
    /\ UNCHANGED <<builderVars, http, addressVars, users, clock, hist>>

\* the lookup UpdateProfile, ChangePassword, DeleteUser and Logout start with
FindUser(p) ==
    LET found == userRepository_FindByID(users, procs[p].id)
    IN  /\ procs' = IF found = {} THEN Return(p, "user not found")
                    ELSE Read(p, CHOOSE row \in found : TRUE, "write")
        /\ UNCHANGED <<users, hist>>

UpdateProfile(p) ==
    /\ procs[p].op = "UpdateProfile" /\ procs[p].pc # "done"
    /\ LET c == procs[p]
       IN  CASE c.pc = "find" -> FindUser(p)
             [] c.pc = "write" ->
                  LET r == UpdateBuilder_Execute(
                               userRepository_Update([c.user[1] EXCEPT !.name = "n2"], clock),
                               users)
                  IN  /\ users' = r.table
                      /\ procs' = Return(p, r.err)
                      /\ UNCHANGED hist
    /\ UNCHANGED <<builderVars, http, addressVars, clock>>

ChangePassword(p) ==
    /\ procs[p].op = "ChangePassword" /\ procs[p].pc # "done"
    /\ LET c == procs[p]
           found == userRepository_FindByID(users, c.id)
       IN  CASE c.pc = "find" ->
                  /\ procs' = IF found = {} THEN Return(p, "user not found")
                              ELSE LET user == CHOOSE row \in found : TRUE
                                   IN  IF user.password # HashPassword(c.password)
                                       THEN Return(p, "invalid old password")
                                       ELSE Read(p, user, "write")
                  /\ UNCHANGED <<users, hist>>
             [] c.pc = "write" ->
                  LET r == UpdateBuilder_Execute(
                               userRepository_Update(
                                   [c.user[1] EXCEPT !.password = HashPassword("p2")], clock),
                               users)
                  IN  /\ users' = r.table
                      /\ procs' = Return(p, r.err)
                      /\ UNCHANGED hist
    /\ UNCHANGED <<builderVars, http, addressVars, clock>>

DeleteUser(p) ==
    /\ procs[p].op = "DeleteUser" /\ procs[p].pc # "done"
    /\ LET c == procs[p]
       IN  CASE c.pc = "find" -> FindUser(p)
             [] c.pc = "write" ->
                  LET r == UpdateBuilder_Execute(userRepository_Delete(c.id, clock), users)
                  IN  /\ users' = r.table
                      /\ procs' = Return(p, r.err)
                      /\ hist' = IF r.err # NULL THEN hist
                                 ELSE [hist EXCEPT !.deleted = @ \cup {[id |-> c.id, email |-> c.user[1].email]}]
    /\ UNCHANGED <<builderVars, http, addressVars, clock>>

RefreshToken(p) ==
    /\ procs[p].op = "RefreshToken" /\ procs[p].pc # "done"
    /\ LET c == procs[p]
           found == userRepository_FindByRefreshToken(users, c.token, clock)
       IN  CASE c.pc = "find" ->
                  /\ procs' = IF found = {}
                              THEN Return(p, "invalid or expired refresh token")
                              ELSE Read(p, CHOOSE row \in found : TRUE, "save")
                  /\ UNCHANGED <<users, hist>>
             [] c.pc = "save" ->
                  /\ Issue(p, c.user[1].id)
                  /\ hist' = IF procs'[p].err # NULL \/ procs'[p].new = c.token
                             THEN Issued(p, hist)
                             ELSE [Issued(p, hist) EXCEPT
                                      !.rotated = @ \cup {[user |-> c.user[1].id,
                                                           token |-> c.token]}]
    /\ UNCHANGED <<builderVars, http, addressVars, clock>>

Logout(p) ==
    /\ procs[p].op = "Logout" /\ procs[p].pc # "done"
    /\ LET c == procs[p]
       IN  CASE c.pc = "find" -> FindUser(p)
             [] c.pc = "write" ->
                  LET r == UpdateBuilder_Execute(
                               userRepository_ClearRefreshToken(c.id, clock), users)
                  IN  /\ users' = r.table
                      /\ procs' = Return(p, r.err)
                      /\ hist' = IF r.err # NULL THEN hist
                                 ELSE [hist EXCEPT !.revoked =
                                          @ \cup { x \in hist.issued : x.user = c.id }]
    /\ UNCHANGED <<builderVars, http, addressVars, clock>>

AuthNext ==
    \/ Receive
    \/ Tick
    \/ \E p \in Procs : Register(p)
    \/ \E p \in Procs : Login(p)
    \/ \E p \in Procs : GetProfile(p)
    \/ \E p \in Procs : GetAllUsers(p)
    \/ \E p \in Procs : UpdateProfile(p)
    \/ \E p \in Procs : ChangePassword(p)
    \/ \E p \in Procs : DeleteUser(p)
    \/ \E p \in Procs : RefreshToken(p)
    \/ \E p \in Procs : Logout(p)

AuthSpec == AuthInit /\ [][AuthNext]_vars


----
\* Vocabulary of the properties

TerminalOps == {"Build", "BuildResult", "Execute"}

LastCall == calls[Len(calls)]

\* the calls made before the last one
Front == SubSeq(calls, 1, Len(calls) - 1)

\* a terminal call has just returned a statement
Returned == out.op # "none"

\* the last call is the first terminal call made on the builder
FirstBuild == Returned /\ \A i \in 1..Len(Front) : Front[i].op \notin TerminalOps

CallsOf(cs, ops) == SelectSeq(cs, LAMBDA c : c.op \in ops)

\* the values of the calls of cs, concatenated in call order
RECURSIVE ArgsOf(_)
ArgsOf(cs) == IF cs = <<>> THEN <<>> ELSE cs[1].args \o ArgsOf(Tail(cs))

UpTo(n) == [i \in 1..n |-> i]

\* the fragment of call c is written with its own placeholders $1..$m, in
\* this order, and is bound to m values
IsLocal(c) == Placeholders(c.cond) = UpTo(Len(c.args))

AllLocal(cs, ops) == \A i \in 1..Len(cs) : cs[i].op \in ops => IsLocal(cs[i])

\* text t with every placeholder $j rewritten to $(offset+j)
Renumbered(t, offset) ==
    [i \in 1..Len(t) |-> IF t[i].ph > 0 THEN Ph(t[i].ph + offset) ELSE t[i]]

----
\* Properties

\* C1: every statement a terminal call returns has as many arguments as the
\* highest placeholder index $k of its text; stated for callers that write
\* each Where and Having fragment with its own placeholders $1..$m.
C1_ArgCountIsHighestPlaceholder ==
    (Returned /\ AllLocal(calls, {"Where", "Having"}))
        => Len(out.args) = MaxPlaceholder(out.query)

\* C2: after N Where calls on a select builder, each with a one-placeholder
\* fragment and one value, Build returns N placeholders numbered $1..$N in
\* call order and the N values in call order.
C2_WherePlaceholdersNumberedInCallOrder ==
    (/\ kind = "select"
     /\ FirstBuild
     /\ Len(Front) >= 1
     /\ \A i \in 1..Len(Front) :
           /\ Front[i].op = "Where"
           /\ Placeholders(Front[i].cond) = <<1>>
           /\ Len(Front[i].args) = 1)
        => /\ Placeholders(out.query) = UpTo(Len(Front))
           /\ out.args = [i \in 1..Len(Front) |-> Front[i].args[1]]

\* the calls of a select builder that put placeholders into the statement
\* are Where and Having calls with locally numbered fragments
OnlyLocalFragments(cs) ==
    /\ AllLocal(cs, {"Where", "Having"})
    /\ \A i \in 1..Len(cs) :
          cs[i].op \notin {"WhereIn", "WhereNotIn", "WhereLike", "WhereBetween"}

\* C5: the select builder turns independently written fragments (each one
\* numbered from $1, in Where and in Having calls) into one increasing
\* numbering: the placeholders of the text are $1..$n in order of
\* appearance, the k-th argument is the value bound to the k-th placeholder,
\* and the HAVING placeholders follow the WHERE placeholders.
C5_SelectRenumbersLocalFragments ==
    (kind = "select" /\ FirstBuild /\ OnlyLocalFragments(Front))
        => /\ Placeholders(out.query) = UpTo(Len(out.args))
           /\ out.args = ArgsOf(CallsOf(Front, {"Where"})) \o ArgsOf(CallsOf(Front, {"Having"}))

\* every Set call of cs comes before every Where call of cs
SetsBeforeWheres(cs) ==
    \A i, j \in 1..Len(cs) : (cs[i].op = "Set" /\ cs[j].op = "Where") => i < j

\* C3: an update builder with SetUpdatedBy: Build appends the updated_by and
\* updated_at SET clauses after the s caller SET clauses, numbered $(s+1)
\* and $(s+2); every WHERE placeholder comes after them, none is shared with
\* an audit clause, and each WHERE placeholder $k has args[k-1] equal to the
\* value given to Where.
C3_AuditSetsBeforeWherePlaceholders ==
    (/\ kind = "update"
     /\ FirstBuild
     /\ ub.updatedBy # NULL
     /\ SetsBeforeWheres(Front)
     /\ AllLocal(Front, {"Where"}))
        => LET s == Len(CallsOf(Front, {"Set"}))
               given == ArgsOf(CallsOf(Front, {"Where"}))
               P == Placeholders(out.query)
           IN  /\ Len(ub.sets) = s + 2
               /\ ub.sets[s + 1] = <<Lit("updated_by = "), Ph(s + 1)>>
               /\ ub.sets[s + 2] = <<Lit("updated_at = "), Ph(s + 2)>>
               /\ Len(P) = s + 2 + Len(given)
               /\ SubSeq(P, 1, s + 2) = UpTo(s + 2)
               /\ SubSeq(out.args, 1, s + 2)
                     = ArgsOf(CallsOf(Front, {"Set"})) \o <<ub.updatedBy, Now>>
               /\ \A i \in 1..Len(given) :
                     /\ P[s + 2 + i] > s + 2
                     /\ P[s + 2 + i] <= Len(out.args)
                     /\ out.args[P[s + 2 + i]] = given[i]

\* C4: a fragment written with the placeholders $1..$m and bound to m values
\* is renumbered to $(offset+1)..$(offset+m), offset being the number of SET
\* arguments: by Where of the update builder, and by Build of a soft delete
\* with that one fragment.
C4_MultiPlaceholderFragmentRenumbered ==
    /\ (kind = "update" /\ calls # <<>> /\ LastCall.op = "Where" /\ IsLocal(LastCall))
          => ub.where[Len(ub.where)] = Renumbered(LastCall.cond, Len(ub.setArgs))
    /\ (/\ kind = "delete"
        /\ FirstBuild
        /\ ~db.hardDelete
        /\ Len(CallsOf(Front, {"Where"})) = 1
        /\ AllLocal(Front, {"Where"}))
          => LET offset == IF db.deletedBy # NULL THEN 3 ELSE 2
             IN  Placeholders(out.query) = UpTo(offset + Len(db.whereArgs))


\* the one Where call and the one SetDeletedBy call of the soft-delete scenario
ActorScenario ==
    /\ kind = "delete"
    /\ FirstBuild
    /\ Len(Front) = 2
    /\ \E i, j \in 1..2 :
          /\ i # j
          /\ Front[i].op = "Where"
          /\ Front[i].cond = <<Lit("id = "), Ph(1)>>
          /\ Len(Front[i].args) = 1
          /\ Front[j].op = "SetDeletedBy"

\* C6: soft delete with an actor: one Where("id = $1", value) and
\* SetDeletedBy(actor), in either order, build
\* UPDATE <table> SET deleted_at = $1, deleted_by = $2, updated_at = $3 WHERE id = $4
\* with the arguments [now, actor, now, value].
C6_SoftDeleteWithActorScenario ==
    ActorScenario
        => /\ out.query = <<Lit("UPDATE " \o db.table \o " SET deleted_at = "), Ph(1),
                            Lit(", deleted_by = "), Ph(2), Lit(", updated_at = "), Ph(3),
                            Lit(" WHERE id = "), Ph(4)>>
           /\ out.args = <<Now>> \o ArgsOf(CallsOf(Front, {"SetDeletedBy"})) \o <<Now>>
                             \o ArgsOf(CallsOf(Front, {"Where"}))

C6_Witness ==
    /\ ActorScenario
    /\ Front[1].op = "SetDeletedBy"
    /\ out.op = "Build"
    /\ out.args = <<Now, "admin1", Now, "v2">>

\* a soft delete was built
SoftBuilt == kind = "delete" /\ FirstBuild /\ ~db.hardDelete

\* text t with the numbers of its placeholders erased
Shape(t) == [i \in 1..Len(t) |-> IF t[i].ph > 0 THEN Ph(1) ELSE t[i]]

\* the WHERE clause made of the fragments as the caller wrote them
GivenWhere ==
    LET w == CallsOf(Front, {"Where"})
    IN  IF w = <<>> THEN <<>>
        ELSE Cat(Str(" WHERE "), Join([i \in 1..Len(w) |-> w[i].cond], " AND "))

\* the text is the UPDATE with exactly the SET clauses `sets`, followed by
\* nothing or by the WHERE clause of the caller's fragments (renumbered or not)
HasSetClause(sets) ==
    /\ Shape(out.query) = Shape(Cat(sets, GivenWhere))
    /\ SubSeq(Placeholders(out.query), 1, Len(Placeholders(sets))) = Placeholders(sets)

\* C7 (as stated): a soft delete built without SetDeletedBy sets deleted_at
\* only.
C7_NoActorSetsDeletedAtOnly ==
    (SoftBuilt /\ CallsOf(Front, {"SetDeletedBy"}) = <<>>)
        => /\ HasSetClause(<<Lit("UPDATE " \o db.table \o " SET deleted_at = "), Ph(1)>>)
           /\ out.args = <<Now>> \o ArgsOf(CallsOf(Front, {"Where"}))

\* C7 (amended): a soft delete built without SetDeletedBy sets deleted_at and
\* updated_at; with SetDeletedBy it sets deleted_at, deleted_by and
\* updated_at: deleted_by is set only if an actor was supplied.
C7_NoActorSetsDeletedAtAndUpdatedAt ==
    SoftBuilt
        => IF CallsOf(Front, {"SetDeletedBy"}) = <<>>
           THEN /\ HasSetClause(<<Lit("UPDATE " \o db.table \o " SET deleted_at = "), Ph(1),
                                  Lit(", updated_at = "), Ph(2)>>)
                /\ out.args = <<Now, Now>> \o ArgsOf(CallsOf(Front, {"Where"}))
           ELSE /\ HasSetClause(<<Lit("UPDATE " \o db.table \o " SET deleted_at = "), Ph(1),
                                  Lit(", deleted_by = "), Ph(2),
                                  Lit(", updated_at = "), Ph(3)>>)
                /\ out.args = <<Now, db.deletedBy, Now>> \o ArgsOf(CallsOf(Front, {"Where"}))

C7_Witness ==
    /\ SoftBuilt
    /\ CallsOf(Front, {"SetDeletedBy"}) = <<>>
    /\ Len(CallsOf(Front, {"Where"})) = 1
    /\ out.args = <<Now, Now, "v1">>

\* C8: hard mode ignores the actor: after SetDeletedBy and HardDelete, in any
\* order, the statement is DELETE FROM <table> followed by the caller's WHERE
\* fragments as given (no audit column is added), the arguments are exactly
\* the WHERE arguments, and Build raises no error.
C8_HardDeleteIgnoresActor ==
    (/\ kind = "delete"
     /\ FirstBuild
     /\ CallsOf(Front, {"SetDeletedBy"}) # <<>>
     /\ CallsOf(Front, {"HardDelete"}) # <<>>)
        => LET w == CallsOf(Front, {"Where"})
               conds == [i \in 1..Len(w) |-> w[i].cond]
           IN  /\ out.query = IF w = <<>>
                              THEN Str("DELETE FROM " \o db.table)
                              ELSE Cat(Str("DELETE FROM " \o db.table \o " WHERE "),
                                       Join(conds, " AND "))
               /\ out.args = ArgsOf(w)
               /\ out.op \in {"Build", "BuildResult"} => out.err = NULL

C8_Witness ==
    /\ kind = "delete"
    /\ FirstBuild
    /\ Len(Front) = 3
    /\ Front[1].op = "HardDelete"
    /\ Front[2].op = "SetDeletedBy"
    /\ Front[3].op = "Where"
    /\ out.query = <<Lit("DELETE FROM users WHERE id = "), Ph(1)>>

\* C9: the mode of a delete builder only moves from soft to hard: it is soft
\* at construction, a step that makes it hard is a HardDelete call, and no
\* call makes a hard builder soft again.
C9_HardDeleteIsOneWay ==
    /\ ~db.hardDelete
    /\ [][/\ db.hardDelete => db'.hardDelete
          /\ (~db.hardDelete /\ db'.hardDelete)
                => calls'[Len(calls')].op = "HardDelete"]_vars

C9_Witness ==
    /\ kind = "delete"
    /\ db.hardDelete
    /\ Len(calls) = 4
    /\ calls[1].op = "HardDelete"
    /\ calls[2].op = "SetDeletedBy"
    /\ calls[3].op = "Execute"
    /\ calls[4].op = "Where"

\* the step is a WhereIn or WhereNotIn call with an empty value list
EmptyInCall ==
    /\ kind = "select"
    /\ Len(calls') = Len(calls) + 1
    /\ calls'[Len(calls')].op \in {"WhereIn", "WhereNotIn"}
    /\ calls'[Len(calls')].args = <<>>

\* C10: WhereIn and WhereNotIn with an empty value list change no field of
\* the builder, so the statement built afterwards is the one that would have
\* been built without the call.
C10_EmptyInListIsNoOp ==
    [][EmptyInCall
          => /\ qb' = qb
             /\ QueryBuilder_Build(qb') = QueryBuilder_Build(qb)]_vars

C10_Witness ==
    /\ kind = "select"
    /\ Len(calls) = 3
    /\ calls[1].op = "Where"
    /\ calls[2].op = "WhereNotIn"
    /\ calls[2].args = <<>>
    /\ calls[3].op = "Build"
    /\ Len(qb.where) = 1
    /\ out.args = <<"v1">>


\* C11: the lookup chain Where("email = $1", v), Where("deleted_at IS NULL"),
\* Limit(1) on the table users builds exactly
\* SELECT * FROM users WHERE email = $1 AND deleted_at IS NULL LIMIT 1
\* with the one argument v: the AND-joined predicates carry no added
\* parentheses.
C11_LookupChainText ==
    \A v \in Values :
        (/\ kind = "select" /\ qb.table = "users" /\ FirstBuild
         /\ Front = << Call("Where", <<Lit("email = "), Ph(1)>>, <<v>>, 0),
                       Call("Where", <<Lit("deleted_at IS NULL")>>, <<>>, 0),
                       Call("Limit", <<>>, <<>>, 1) >>)
        => /\ out.query = << Lit("SELECT * FROM users WHERE email = "), Ph(1),
                             Lit(" AND deleted_at IS NULL LIMIT 1") >>
           /\ out.args = <<v>>

\* the columns named by the Set calls of cs, in call order
SetColumnsOf(cs) ==
    LET sets == CallsOf(cs, {"Set"})
    IN  [i \in 1..Len(sets) |-> sets[i].cond[1].s]

\* INSERT INTO <table> (<cols>) VALUES ($1, ..., $n) RETURNING id, n = Len(cols)
InsertText(table, cols) ==
    Cat(Str("INSERT INTO " \o table \o " (" \o JoinStr(cols, ", ") \o ") VALUES ("),
        Cat(Join([i \in 1..Len(cols) |-> <<Ph(i)>>], ", "), Str(") RETURNING id")))

\* C12: the statement an insert builder returns from its terminal call is
\* INSERT INTO <table> (<cols>) VALUES ($1, ..., $n) RETURNING id with one
\* placeholder and one argument per column: the columns of the Set calls in
\* call order, bound to the values given to Set in that order, and, if
\* SetCreatedBy was called at any point before, created_by and created_at as
\* the last two columns, bound to the actor and the current time.
C12_InsertTextAndAuditColumns ==
    (kind = "insert" /\ FirstBuild)
        => LET cols == SetColumnsOf(Front)
               vals == ArgsOf(CallsOf(Front, {"Set"}))
               actors == ArgsOf(CallsOf(Front, {"SetCreatedBy"}))
           IN  IF actors = <<>>
               THEN /\ out.query = InsertText(ib.table, cols)
                    /\ out.args = vals
               ELSE /\ out.query = InsertText(ib.table, cols \o <<"created_by", "created_at">>)
                    /\ out.args = vals \o <<actors[Len(actors)], Now>>

\* SetCreatedBy is called between two Set calls, then Build
C12_Witness ==
    /\ kind = "insert"
    /\ FirstBuild
    /\ Len(Front) = 3
    /\ Front[1].op = "Set"
    /\ Front[2].op = "SetCreatedBy"
    /\ Front[3].op = "Set"
    /\ out.query = << Lit("INSERT INTO users (name, city, created_by, created_at) VALUES ("),
                      Ph(1), Lit(", "), Ph(2), Lit(", "), Ph(3), Lit(", "), Ph(4),
                      Lit(") RETURNING id") >>
    /\ out.args = <<"v1", "v2", "admin1", Now>>

\* the SET clauses "<column> = $i" of the Set calls of cs, in call order
SetClausesOf(cs) ==
    [i \in 1..Len(SetColumnsOf(cs)) |-> <<Lit(SetColumnsOf(cs)[i] \o " = "), Ph(i)>>]

\* C13: a builder that received no Where call builds a statement without a
\* WHERE clause, and Build raises no error: the update builder returns
\* UPDATE <table> SET <sets> (the caller's SET clauses, then the audit
\* clauses if an actor was named) with the SET arguments; the delete builder
\* returns the soft-delete UPDATE with its SET clauses only, or in hard mode
\* DELETE FROM <table> with no argument.
C13_NoWhereCallNoWhereClause ==
    (FirstBuild /\ CallsOf(Front, {"Where"}) = <<>>)
        => /\ out.op \in {"Build", "BuildResult"} => out.err = NULL
           /\ kind = "update"
                 => LET s == Len(SetColumnsOf(Front))
                        actors == ArgsOf(CallsOf(Front, {"SetUpdatedBy"}))
                        audit == IF actors = <<>> THEN <<>>
                                 ELSE << <<Lit("updated_by = "), Ph(s + 1)>>,
                                         <<Lit("updated_at = "), Ph(s + 2)>> >>
                    IN  /\ out.query = Cat(Str("UPDATE " \o ub.table \o " SET "),
                                           Join(SetClausesOf(Front) \o audit, ", "))
                        /\ out.args = ArgsOf(CallsOf(Front, {"Set"}))
                                        \o IF actors = <<>> THEN <<>>
                                           ELSE <<actors[Len(actors)], Now>>
           /\ (kind = "delete" /\ CallsOf(Front, {"HardDelete"}) # <<>>)
                 => /\ out.query = Str("DELETE FROM " \o db.table)
                    /\ out.args = <<>>
           /\ (kind = "delete" /\ CallsOf(Front, {"HardDelete"}) = <<>>)
                 => IF CallsOf(Front, {"SetDeletedBy"}) = <<>>
                    THEN /\ out.query = <<Lit("UPDATE " \o db.table \o " SET deleted_at = "), Ph(1),
                                           Lit(", updated_at = "), Ph(2)>>
                         /\ out.args = <<Now, Now>>
                    ELSE /\ out.query = <<Lit("UPDATE " \o db.table \o " SET deleted_at = "), Ph(1),
                                           Lit(", deleted_by = "), Ph(2),
                                           Lit(", updated_at = "), Ph(3)>>
                         /\ out.args = <<Now, db.deletedBy, Now>>

\* an update with one Set and no Where has been built
C13_Witness ==
    /\ kind = "update"
    /\ FirstBuild
    /\ Len(Front) = 1
    /\ Front[1].op = "Set"
    /\ out.query = <<Lit("UPDATE users SET name = "), Ph(1)>>
    /\ out.args = <<"v1">>

\* C14: a select builder that received no chained call builds exactly
\* SELECT * FROM <table> with an empty argument list, and Build raises no
\* error.
C14_EmptySelectBuilder ==
    (/\ kind = "select"
     /\ Returned
     /\ \A i \in 1..Len(Front) : Front[i].op \in TerminalOps)
        => /\ out.query = <<Lit("SELECT * FROM " \o qb.table)>>
           /\ out.args = <<>>
           /\ out.op \in {"Build", "BuildResult"} => out.err = NULL

C14_Witness ==
    /\ kind = "select"
    /\ Len(calls) = 1
    /\ out.op = "Build"
    /\ out.query = <<Lit("SELECT * FROM users")>>
    /\ out.args = <<>>

\* the calls that add a condition to the AND conditions of the WHERE clause
WhereOps == {"Where", "WhereIn", "WhereNotIn", "WhereLike", "WhereBetween",
             "WhereNull", "WhereNotNull"}

JoinOps == {"Join", "LeftJoin", "RightJoin", "InnerJoin"}

\* the conditions that the calls cs (all of WhereOps) stand for, in call
\* order, a values being bound before them
RECURSIVE ConditionsOf(_, _)
ConditionsOf(cs, a) ==
    IF cs = <<>> THEN <<>>
    ELSE LET c == cs[1]
             k == Len(c.args)
             list == Join([i \in 1..k |-> <<Ph(a + i)>>], ", ")
             own ==
                CASE c.op = "Where" -> <<c.cond>>
                  [] c.op = "WhereIn" ->
                        IF k = 0 THEN <<>>
                        ELSE << Cat(Cat(c.cond, Str(" IN (")), Cat(list, Str(")"))) >>
                  [] c.op = "WhereNotIn" ->
                        IF k = 0 THEN <<>>
                        ELSE << Cat(Cat(c.cond, Str(" NOT IN (")), Cat(list, Str(")"))) >>
                  [] c.op = "WhereLike" -> << Cat(Cat(c.cond, Str(" LIKE ")), <<Ph(a + 1)>>) >>
                  [] c.op = "WhereBetween" ->
                        << Cat(Cat(c.cond, Str(" BETWEEN ")),
                               <<Ph(a + 1), Lit(" AND "), Ph(a + 2)>>) >>
                  [] c.op = "WhereNull" -> << Cat(c.cond, Str(" IS NULL")) >>
                  [] c.op = "WhereNotNull" -> << Cat(c.cond, Str(" IS NOT NULL")) >>
         IN  own \o ConditionsOf(Tail(cs), a + k)

\* the text of an OR group of n fragments, as callers pass them
OrGroupText(n) ==
    IF n = 1 THEN <<Lit("(role = 'admin')")>>
    ELSE <<Lit("(role = 'admin' OR role = 'moderator')")>>

\* the WHERE clause for the calls cs: the AND conditions in one pair of
\* parentheses, then one parenthesised group per OrWhere call that passed a
\* fragment, all joined by AND; nothing if there is neither
WhereClauseOf(cs) ==
    LET ands == ConditionsOf(CallsOf(cs, WhereOps), 0)
        ors == SelectSeq(CallsOf(cs, {"OrWhere"}), LAMBDA c : c.n > 0)
        parts == (IF ands = <<>> THEN <<>>
                  ELSE << Cat(Str("("), Cat(Join(ands, " AND "), Str(")"))) >>)
                 \o [i \in 1..Len(ors) |-> OrGroupText(ors[i].n)]
    IN  IF parts = <<>> THEN <<>> ELSE Cat(Str(" WHERE "), Join(parts, " AND "))

\* the JOIN clause that call c stands for
JoinClauseOf(c) ==
    CASE c.op = "Join" -> c.cond
      [] c.op = "LeftJoin" -> Cat(Str("LEFT JOIN "), Cat(c.cond, Str(" ON " \o c.args[1])))
      [] c.op = "RightJoin" -> Cat(Str("RIGHT JOIN "), Cat(c.cond, Str(" ON " \o c.args[1])))
      [] c.op = "InnerJoin" -> Cat(Str("INNER JOIN "), Cat(c.cond, Str(" ON " \o c.args[1])))

\* the last value given by a call of ops in cs, or none
LastOf(cs, ops, none) ==
    LET s == CallsOf(cs, ops) IN IF s = <<>> THEN none ELSE s[Len(s)]

\* the statement for the calls cs on table t, clause by clause in the fixed
\* order; each clause is made of the calls of its own kind only, so the
\* place of a call among calls of other kinds does not matter
SelectTextOf(t, cs) ==
    LET sel == LastOf(cs, {"Select"}, Call("Select", <<>>, <<"*">>, 0))
        joins == CallsOf(cs, JoinOps)
        groups == ArgsOf(CallsOf(cs, {"GroupBy"}))
        havings == CallsOf(cs, {"Having"})
        orders == CallsOf(cs, {"OrderBy"})
        limit == LastOf(cs, {"Limit"}, Call("Limit", <<>>, <<>>, 0)).n
        offset == LastOf(cs, {"Offset"}, Call("Offset", <<>>, <<>>, 0)).n
        clauses ==
          << Str(IF CallsOf(cs, {"Distinct"}) # <<>> THEN "SELECT DISTINCT " ELSE "SELECT "),
             Str(JoinStr(sel.args, ", ")),
             Str(" FROM " \o t),
             IF joins = <<>> THEN <<>>
             ELSE Cat(Str(" "), Join([i \in 1..Len(joins) |-> JoinClauseOf(joins[i])], " ")),
             WhereClauseOf(cs),
             IF groups = <<>> THEN <<>> ELSE Str(" GROUP BY " \o JoinStr(groups, ", ")),
             IF havings = <<>> THEN <<>>
             ELSE Cat(Str(" HAVING "),
                      Join([i \in 1..Len(havings) |-> havings[i].cond], " AND ")),
             IF orders = <<>> THEN <<>>
             ELSE Cat(Str(" ORDER BY "),
                      Join([i \in 1..Len(orders) |-> orders[i].cond], ", ")),
             IF limit > 0 THEN Str(" LIMIT " \o ToString(limit)) ELSE <<>>,
             IF offset > 0 THEN Str(" OFFSET " \o ToString(offset)) ELSE <<>> >>
    IN  Join(clauses, "")

\* C15: whatever the order of the chained calls, the text a select builder
\* returns is SELECT [DISTINCT] cols FROM table, then the joins, WHERE,
\* GROUP BY, HAVING, ORDER BY, LIMIT and OFFSET, and the arguments are the
\* WHERE values in call order followed by the HAVING values in call order,
\* which is the order in which their placeholders stand in the text.
C15_SelectClauseOrder ==
    (kind = "select" /\ Returned)
        => /\ out.query = SelectTextOf(qb.table, Front)
           /\ out.args = ArgsOf(CallsOf(Front, WhereOps)) \o ArgsOf(CallsOf(Front, {"Having"}))

\* Having is called before Where
C15_Witness ==
    /\ kind = "select"
    /\ Len(calls) = 3
    /\ calls[1].op = "Having"
    /\ calls[2].op = "Where"
    /\ out.op = "Build"
    /\ out.query = <<Lit("SELECT * FROM users WHERE (id = "), Ph(1),
                      Lit(") HAVING COUNT(*) > "), Ph(1)>>
    /\ out.args = <<"v1", "v2">>

\* the step is an OrWhere call
OrWhereCall ==
    /\ kind = "select"
    /\ Len(calls') = Len(calls) + 1
    /\ calls'[Len(calls')].op = "OrWhere"

\* C16: an OrWhere call with n >= 1 fragments adds one group of n fragments
\* and changes nothing else, an OrWhere call with no fragment changes
\* nothing; in the statement built from Where and OrWhere calls the WHERE
\* clause is the AND-joined Where predicates (if any) and one group per
\* OrWhere call that passed a fragment, the fragments of a group joined by
\* OR, all of them joined by AND.
C16_OrGroupsAndedWithTheRest ==
    /\ []((/\ kind = "select"
            /\ FirstBuild
            /\ \A i \in 1..Len(Front) : Front[i].op \in {"Where", "OrWhere"})
          => LET w == CallsOf(Front, {"Where"})
                 g == SelectSeq(CallsOf(Front, {"OrWhere"}), LAMBDA c : c.n > 0)
                 ands == IF w = <<>> THEN <<>>
                         ELSE << Cat(Str("("),
                                     Cat(Join([i \in 1..Len(w) |-> w[i].cond], " AND "),
                                         Str(")"))) >>
                 parts == ands \o [i \in 1..Len(g) |-> OrGroupText(g[i].n)]
             IN  /\ out.query = IF parts = <<>> THEN Str("SELECT * FROM " \o qb.table)
                                ELSE Cat(Str("SELECT * FROM " \o qb.table \o " WHERE "),
                                         Join(parts, " AND "))
                 /\ out.args = ArgsOf(w))
    /\ [][OrWhereCall
            => LET n == calls'[Len(calls')].n
                   m == Len(qb.orWhere)
               IN  IF n = 0 THEN qb' = qb
                   ELSE /\ Len(qb'.orWhere) = m + 1
                        /\ SubSeq(qb'.orWhere, 1, m) = qb.orWhere
                        /\ Len(qb'.orWhere[m + 1]) = n
                        /\ qb' = [qb EXCEPT !.orWhere = qb'.orWhere]]_vars

\* a Where predicate, a group of two fragments, then Build
C16_Witness ==
    /\ kind = "select"
    /\ Len(calls) = 3
    /\ calls[1].op = "Where"
    /\ calls[2].op = "OrWhere"
    /\ out.op = "Build"
    /\ out.query = <<Lit("SELECT * FROM users WHERE (id = "), Ph(1),
                      Lit(") AND (role = 'admin' OR role = 'moderator')")>>
    /\ out.args = <<"v1">>

\* the step is a WhereIn or WhereNotIn call with a non-empty value list
InCall ==
    /\ kind = "select"
    /\ Len(calls') = Len(calls) + 1
    /\ calls'[Len(calls')].op \in {"WhereIn", "WhereNotIn"}
    /\ calls'[Len(calls')].args # <<>>

\* C17: WhereIn and WhereNotIn with a list of k >= 1 values add one fragment,
\* <column> IN (...) or <column> NOT IN (...), whose k placeholders are
\* numbered a+1 .. a+k, a being the length of the WHERE argument list before
\* the call, and append the k values to that list in list order; nothing
\* else of the builder changes.
C17_InListPlaceholders ==
    [][InCall
          => LET c == calls'[Len(calls')]
                 k == Len(c.args)
                 a == Len(qb.whereArgs)
                 w == Len(qb.where)
                 word == IF c.op = "WhereIn" THEN " IN (" ELSE " NOT IN ("
                 list == Join([i \in 1..k |-> <<Ph(a + i)>>], ", ")
             IN  /\ Len(qb'.where) = w + 1
                 /\ SubSeq(qb'.where, 1, w) = qb.where
                 /\ Placeholders(qb'.where[w + 1]) = [i \in 1..k |-> a + i]
                 /\ qb'.where[w + 1] = Cat(Cat(c.cond, Str(word)), Cat(list, Str(")")))
                 /\ qb'.whereArgs = qb.whereArgs \o c.args
                 /\ qb' = [qb EXCEPT !.where = qb'.where, !.whereArgs = qb'.whereArgs]]_vars

\* a two-value WhereIn after a Where that bound one value
C17_Witness ==
    /\ kind = "select"
    /\ Len(calls) = 2
    /\ calls[1].op = "Where"
    /\ calls[2].op = "WhereIn"
    /\ Len(qb.where) = 2
    /\ qb.where[2] = <<Lit("role IN ("), Ph(2), Lit(", "), Ph(3), Lit(")")>>
    /\ qb.whereArgs = <<"v2", "v1", "v2">>

\* the step is an AddRow call
AddRowCall ==
    /\ kind = "bulk"
    /\ Len(calls') = Len(calls) + 1
    /\ calls'[Len(calls')].op = "AddRow"

\* C19: every accumulated row of a bulk insert builder has exactly
\* len(columns) values, and an AddRow call with another number of values
\* leaves the builder, its rows included, unchanged.
C19_BulkRowsHaveColumnArity ==
    /\ [](\A i \in 1..Len(bib.rows) : Len(bib.rows[i]) = Len(bib.columns))
    /\ [][(AddRowCall /\ Len(calls'[Len(calls')].args) # Len(bib.columns))
            => bib' = bib]_vars

\* a row of two values is kept, then a row of three values is dropped
C19_Witness ==
    /\ kind = "bulk"
    /\ Len(calls) = 2
    /\ calls[1] = Call("AddRow", <<>>, <<"v1", "v2">>, 0)
    /\ calls[2] = Call("AddRow", <<>>, <<"v1", "v2", "v3">>, 0)
    /\ bib.columns = <<"name", "price">>
    /\ bib.rows = << <<"v1", "v2">> >>

\* C20: Execute of an update or delete builder, the database answering the
\* statement with the error e or with n affected rows: if the call failed,
\* Execute returns (0, e), e being the database error itself; if it ran,
\* Execute returns (n, nil), which is (0, nil) when no row matched.
C20_ExecuteKeepsOutcomesApart ==
    (kind \in {"update", "delete"} /\ Returned /\ LastCall.op = "Execute")
        => LET e == LastCall.args[1]
               n == LastCall.n
           IN  IF e # NULL
               THEN out.rows = 0 /\ out.err = e /\ out.err # NULL
               ELSE out.rows = n /\ out.err = NULL

\* the database call of an update fails
C20_Witness ==
    /\ kind = "update"
    /\ Len(calls) = 3
    /\ calls[1].op = "Set"
    /\ calls[2].op = "Where"
    /\ calls[3] = Call("Execute", <<>>, <<DbError>>, 0)
    /\ out.op = "Execute"
    /\ out.rows = 0
    /\ out.err = DbError

\* C24: an update builder without audit actor, its Where fragments written
\* with their own placeholder $1 (or none), Set and Where calls in any
\* order: the SET placeholders are $1..$s in Set-call order, every WHERE
\* placeholder is greater than s, and each WHERE placeholder $k has the
\* value passed to its Where call at args[k-1].
C24_SetAfterWhereKeepsNumbering ==
    (/\ kind = "update"
     /\ FirstBuild
     /\ ub.updatedBy = NULL
     /\ \A i \in 1..Len(Front) :
           Front[i].op = "Where" => (IsLocal(Front[i]) /\ Len(Front[i].args) <= 1))
        => LET s == Len(CallsOf(Front, {"Set"}))
               given == ArgsOf(CallsOf(Front, {"Where"}))
               P == Placeholders(out.query)
           IN  /\ Len(P) = s + Len(given)
               /\ SubSeq(P, 1, s) = UpTo(s)
               /\ SubSeq(out.args, 1, s) = ArgsOf(CallsOf(Front, {"Set"}))
               /\ \A i \in 1..Len(given) :
                     /\ P[s + i] > s
                     /\ P[s + i] <= Len(out.args)
                     /\ out.args[P[s + i]] = given[i]

\* the step is a terminal call made right after a terminal call
RepeatedTerminalCall ==
    /\ Returned
    /\ Len(calls') = Len(calls) + 1
    /\ calls'[Len(calls')].op \in TerminalOps

\* C25: a terminal call made right after a terminal call on the same
\* builder returns the same statement text and the same number of
\* arguments as the first one.
C25_BuildIsIdempotent ==
    [][RepeatedTerminalCall
          => /\ out'.query = out.query
             /\ Len(out'.args) = Len(out.args)]_vars

\* C30: Execute on a bulk insert builder that kept no row (no AddRow call,
\* or only AddRow calls of the wrong length) returns the count 0 and the
\* error "no rows to insert", and no statement is sent.
C30_BulkExecuteWithoutRows ==
    (/\ kind = "bulk"
     /\ Returned
     /\ \A i \in 1..Len(Front) :
           Front[i].op = "AddRow" => Len(Front[i].args) # Len(bib.columns))
        => /\ out.rows = 0
           /\ out.err = NoRowsError
           /\ out.query = <<>>
           /\ out.args = <<>>

\* Execute after an AddRow call that was dropped
C30_Witness ==
    /\ kind = "bulk"
    /\ Len(calls) = 2
    /\ calls[1] = Call("AddRow", <<>>, <<"v1">>, 0)
    /\ calls[2].op = "Execute"
    /\ bib.columns = <<"name", "price">>
    /\ out.op = "Execute"
    /\ out.err = NoRowsError

\* The request has been through the role middleware of a role-protected route.
PastRoleCheck ==
    /\ http.route # 0
    /\ http.role # NULL
    /\ \E k \in 1..Len(Chain) :
          /\ Chain[k].h = "RequireRole"
          /\ http.index > k \/ (http.aborted /\ http.index = k)

\* C22: on every role-protected route (GET /api/users, DELETE /api/users/:id)
\* the role middleware lets a request with user_role SUPERADMIN through, and
\* rejects a request with user_role USER with 403 without running the handler.
C22_SuperAdminPassesEveryRoleCheck ==
    PastRoleCheck =>
        /\ http.role = "SUPERADMIN" => ~http.aborted
        /\ http.role = "USER" =>
              http.aborted /\ http.status = StatusForbidden /\ http.ran = <<>>

\* The argument the WHERE predicate on a column is bound to in the statement
\* addressRepository.Update sent last (the set is empty without a predicate).
BoundTo(column) ==
    { out.args[ub.where[i][2].ph] : i \in { j \in 1..Len(ub.where) : Names(ub.where[j], column) } }

\* C21: in the statement addressRepository.Update sends, the id predicate is
\* bound to the address id and the user_id predicate to the userID argument,
\* whichever optional fields the request fills.
C21_UpdateBoundToOwner ==
    ret.op = "UpdateAddress" =>
        /\ BoundTo("id") = {ret.id}
        /\ BoundTo("user_id") = {ret.userID}

\* C26: DeleteAddress on an address that exists and belongs to another user
\* returns a non-nil error and leaves the table alone; an address is
\* soft-deleted only by a DeleteAddress call of its owner.
C26_NonOwnerDeleteFails ==
    [][\A row \in addresses :
          /\ ( /\ ret'.op = "DeleteAddress"
               /\ ret'.id = row.id
               /\ row.deleted_at = NULL
               /\ row.user_id # ret'.userID )
             => (ret'.err # NULL /\ addresses' = addresses)
          /\ ( /\ row.deleted_at = NULL
               /\ \E after \in addresses' : after.id = row.id /\ after.deleted_at # NULL )
             => (ret'.op = "DeleteAddress" /\ ret'.userID = row.user_id)]_vars

\* Call p takes the step named pc in this step.
Steps(p, op, pc) ==
    procs[p].op = op /\ procs[p].pc = pc /\ procs'[p] # procs[p]

Fails(p, err) == procs'[p].pc = "done" /\ procs'[p].err = err

\* C23: once Logout(user) has returned nil, a RefreshToken call with a refresh
\* token issued to that user before the logout fails with "invalid or expired
\* refresh token", until a Login or Register of that user succeeds.
C23_LogoutRevokesIssuedTokens ==
    [][\A p \in Procs :
          ( /\ Steps(p, "RefreshToken", "find")
            /\ procs[p].token \in { x.token : x \in hist.revoked } )
          => Fails(p, "invalid or expired refresh token")]_vars

\* C27: however Register calls with the same email interleave, at most one of
\* them returns success and at most one row that is not deleted holds the
\* email; a Register call that finds a user with its email returns "email
\* already registered" and creates no row.
C27_RegisterOncePerEmail ==
    /\ [](\A e \in Emails :
            /\ Cardinality(userRepository_FindByEmail(users, e)) <= 1
            /\ Cardinality({ i \in 1..Len(hist.registered) : hist.registered[i] = e }) <= 1)
    /\ [][\A p \in Procs :
            ( /\ Steps(p, "Register", "find")
              /\ userRepository_FindByEmail(users, procs[p].email) # {} )
            => (Fails(p, "email already registered") /\ users' = users)]_vars

\* Two Register calls with the same email ran side by side: one returned
\* success, the other got past its lookup and failed in Create.
C27_Witness ==
    \E p, q \in Procs :
        /\ procs[p].op = "Register" /\ procs[p].pc = "done" /\ procs[p].err = NULL
        /\ procs[q].op = "Register" /\ procs[q].pc = "done" /\ procs[q].err = DbError
        /\ procs[p].email = procs[q].email

\* the refresh tokens that FindByRefreshToken accepts now for a user
Accepted(userID) ==
    { t \in { x.token : x \in hist.issued } \cup { row.refresh_token : row \in users } :
        \E row \in userRepository_FindByRefreshToken(users, t, clock) : row.id = userID }

C29_DeletedUserIsInvisible ==
    /\ [](\A d \in hist.deleted :
            \E row \in users : row.id = d.id /\ row.deleted_at # NullTime)
    /\ [][\A p \in Procs :
            /\ ( /\ \E op \in {"GetProfile", "UpdateProfile", "ChangePassword",
                               "Logout", "DeleteUser"} : Steps(p, op, "find")
                 /\ procs[p].id \in { d.id : d \in hist.deleted } )
               => Fails(p, "user not found")
            /\ ( /\ Steps(p, "Login", "find")
                 /\ procs[p].email \in { d.email : d \in hist.deleted } )
               => Fails(p, "invalid email or password")
            /\ Steps(p, "GetAllUsers", "find")
               => procs'[p].list \cap { d.id : d \in hist.deleted } = {}]_vars

\* After DeleteUser returned nil, calls for the deleted user were refused: a
\* second DeleteUser and a Login with the user's email and password.
C29_Witness ==
    /\ hist.deleted # {}
    /\ \E p, q \in Procs :
          /\ procs[p].op = "DeleteUser" /\ procs[p].pc = "done"
          /\ procs[p].err = "user not found"
          /\ procs[p].id \in { d.id : d \in hist.deleted }
          /\ procs[q].op = "Login" /\ procs[q].pc = "done"
          /\ procs[q].password = "p1"
          /\ procs[q].err = "invalid email or password"
          /\ procs[q].email \in { d.email : d \in hist.deleted }

====
